---- MODULE Spec2Model ----
(***************************************************************************)
(* Model of the ARI RTT service (cmd/ari-service): the port pool, the      *)
(* active-channel map, the event loop that runs the begin and end          *)
(* handlers, the zombie scrubber that runs concurrently with it, and the   *)
(* lifecycle of each per-channel RTP worker.                               *)
(***************************************************************************)
EXTENDS Integers, Sequences, FiniteSets, TLC

(* ------------------------------ bounds --------------------------------- *)
\* number of ports in the configured range
PoolSize == 2
\* number of ChannelHandler objects that can be live at the same time
MaxRecords == 2

(* ---------------------------- program constants ------------------------ *)
MinPort == 4500
MaxPort == MinPort + PoolSize - 1
AnswerMaxRetries == 3

PortRange == MinPort..MaxPort
Rids == 1..MaxRecords
NoHandler == 0

\* channel ids issued by the engine (opaque strings, kept as token sequences)
ChannelList == << <<"c1">>, <<"c2">> >>
ChannelIDs == { ChannelList[i] : i \in 1..Len(ChannelList) }

\* the id the service asks for its mirror: "external-media-%s"
ExternalMediaID(channelID) == <<"external-media">> \o channelID
\* the id of the bridge the engine creates for one begin handler
BridgeID(channelID) == <<"bridge">> \o channelID
\* the zero value of a string
EmptyID == << >>

Procs == { "events", "zombie" }

VARIABLES
    ports,          \* PortManager.ports: port -> allocated?
    channels,       \* ARIService.channels: channel id -> handler or NoHandler
    handlers,       \* the live ChannelHandler objects
    workers,        \* the rtp.Worker of each live ChannelHandler
    pc,             \* position of the event loop and of the zombie scrubber
    evCh,           \* event loop: channel id of the event being handled
    evPort,         \* createChannel: rtpPort
    evBridge,       \* createChannel: bridge.ID
    evMirror,       \* createChannel: externalMediaID
    evResult,       \* what the last begin handler returned
    evUndo,         \* teardown requests the last begin handler sent to the engine
    zCh,            \* scrubber: key of the Range callback that is running
    zOutcome,       \* scrubber: what its GetChannel came back with
    clH,            \* proc -> handler whose cleanup closure it is running
    teardown,       \* proc -> the steps of its last cleanupChannel call, in order
    echoPortOk,     \* does config.EchoPort parse as an integer
    shutdown,       \* Start returned after ctx.Done
    crashed,        \* an unrecovered panic ended the process
    ans,            \* one begin event followed through answerChannelWithRetry
    stream,         \* s.conn, the goroutine that listens on it, the events on it
    knownChannels,  \* startEventPolling: the ids remembered from the last poll
    polled,         \* the last pollChannels call: what it fetched and dispatched
    portManager,    \* a PortManager.ports followed call by call
    pmCalls,        \* the GetPort and ReleasePort calls made on it, in order
    rtpWorkers,     \* Workers followed on their own, with the Stop calls on each
    stopPanic,      \* a Stop call panicked
    now,            \* the clock of a worker's packet path, in seconds
    sentTimes,      \* LatencyTracker.sentTimes: seq -> send time
    sequenceTracker,\* the SequenceTracker of the worker
    rtpLog,         \* the packets the packetProcessor has handled, in order
    pacer,          \* PacketPacer.baseTimestamp and baseTime of a worker
    workerBase,     \* Worker.baseTimestamp and baseTime, the base of the late check
    processor,      \* where that worker's packetProcessor is
    stopChan,       \* that worker's stopChan: open or closed
    connClosed,     \* that worker's socket was closed by its packetReader
    paceNow,        \* the clock of that worker, in packet intervals of 20 ms
    writes,         \* the WriteToUDP calls of that processor, in order
    channelMetrics, \* Metrics.channelMetrics: channel id -> ChannelMetrics
    totalLatencies, \* Metrics.totalLatencies
    totalChannels,  \* Metrics.totalChannels
    metricCalls,    \* how many calls were made on that Metrics
    beginsHandled,  \* how many begin events the service has handled for it
    packetChan,     \* Worker.packetChan of a followed worker: the queued *Packet
    datagrams,      \* the Packet each of them points to
    readerTask,     \* that worker's packetReader: where it is, what it has read
    processorTask,  \* that worker's packetProcessor: at its select or returned
    workerStop,     \* that worker's stopChan: open or closed
    queueNow,       \* the clock of that worker, in seconds
    queueSent,      \* that worker's LatencyTracker.sentTimes
    queueLog        \* the packets its packetProcessor has handled, in order

vars == << ports, channels, handlers, workers, pc, evCh, evPort, evBridge,
           evMirror, evResult, evUndo, zCh, zOutcome, clH,
           teardown, echoPortOk, shutdown, crashed >>

lifeVars == << ports, channels, handlers, workers >>
evVars == << evCh, evPort, evBridge, evMirror, evResult, evUndo >>
zVars == << zCh, zOutcome >>
procVars == << echoPortOk, shutdown, crashed >>

\* the parts of the service that are followed one at a time, each under a
\* specification of its own; the service lifecycle leaves them alone
answerVars == << ans >>
streamVars == << stream >>
pollVars == << knownChannels, polled >>
poolVars == << portManager, pmCalls >>
stopVars == << rtpWorkers, stopPanic >>
rtpVars == << now, sentTimes, sequenceTracker, rtpLog >>
paceVars == << pacer, workerBase, processor, stopChan, connClosed, paceNow, writes >>
metricsVars == << channelMetrics, totalLatencies, totalChannels, metricCalls, beginsHandled >>
queueVars == << packetChan, datagrams, readerTask, processorTask, workerStop, queueNow, queueSent, queueLog >>
unitVars == << answerVars, streamVars, pollVars, poolVars, stopVars, rtpVars, paceVars, metricsVars, queueVars >>
allVars == << vars, unitVars >>

\* for each part, the variables of the other parts
answerRest == << streamVars, pollVars, poolVars, stopVars, rtpVars, paceVars, metricsVars, queueVars >>
streamRest == << answerVars, pollVars, poolVars, stopVars, rtpVars, paceVars, metricsVars, queueVars >>
pollRest == << answerVars, streamVars, poolVars, stopVars, rtpVars, paceVars, metricsVars, queueVars >>
poolRest == << answerVars, streamVars, pollVars, stopVars, rtpVars, paceVars, metricsVars, queueVars >>
stopRest == << answerVars, streamVars, pollVars, poolVars, rtpVars, paceVars, metricsVars, queueVars >>
rtpRest == << answerVars, streamVars, pollVars, poolVars, stopVars, paceVars, metricsVars, queueVars >>
paceRest == << answerVars, streamVars, pollVars, poolVars, stopVars, rtpVars, metricsVars, queueVars >>
metricsRest == << answerVars, streamVars, pollVars, poolVars, stopVars, rtpVars, paceVars, queueVars >>
queueRest == << answerVars, streamVars, pollVars, poolVars, stopVars, rtpVars, paceVars, metricsVars >>

\* a slot that holds no ChannelHandler; cleanups counts the entries into
\* handler.cleanup
NoRecord == [ channelID |-> EmptyID, externalMediaID |-> EmptyID,
              bridgeID |-> EmptyID, rtpPort |-> 0, cleanups |-> 0 ]

\* a slot that holds no Worker: started is the progress of Start ("none",
\* "new" once `go worker.Start()` is issued, "bindFailed" or "running"),
\* stopChan is closed by Stop, and wg tells whether the tasks counted by
\* w.wg (packetReader, which owns the socket, and packetProcessor) are
\* still there
NoWorker == [ rtpPort |-> 0, started |-> "none", stopChan |-> "open",
              wg |-> FALSE ]

(* --------------------- error texts of the control client --------------- *)
\* Go strings are modelled as sequences of characters, so that
\* strings.Contains is computed and not assumed.
TxtApiError == << "A", "R", "I", " ", "A", "P", "I", " ", "e", "r", "r", "o", "r", ":", " " >>
Txt404 == << "4", "0", "4" >>
Txt500 == << "5", "0", "0" >>
TxtDash == << " ", "-", " " >>
TxtBodyNotFound == << "{", "\"", "m", "e", "s", "s", "a", "g", "e", "\"", ":", "\"", "C", "h", "a", "n", "n", "e", "l", " ", "n", "o", "t", " ", "f", "o", "u", "n", "d", "\"", "}" >>
TxtBodyInternal == << "{", "\"", "m", "e", "s", "s", "a", "g", "e", "\"", ":", "\"", "I", "n", "t", "e", "r", "n", "a", "l", " ", "e", "r", "r", "o", "r", "\"", "}" >>
TxtGet == << "G", "e", "t", " " >>
TxtPost == << "P", "o", "s", "t", " " >>
TxtHttp == << "h", "t", "t", "p", ":", "/", "/" >>
TxtBaseURL == << "l", "o", "c", "a", "l", "h", "o", "s", "t", ":", "8", "0", "8", "8" >>
TxtChannelsPath == << "/", "a", "r", "i", "/", "c", "h", "a", "n", "n", "e", "l", "s", "/" >>
TxtAnswerPath == << "/", "a", "n", "s", "w", "e", "r" >>
TxtQuote == << "\"" >>
TxtRefused == << ":", " ", "d", "i", "a", "l", " ", "t", "c", "p", ":", " ", "c", "o", "n", "n", "e", "c", "t", ":", " ", "c", "o", "n", "n", "e", "c", "t", "i", "o", "n", " ", "r", "e", "f", "u", "s", "e", "d" >>
TxtNotFoundLower == << "n", "o", "t", " ", "f", "o", "u", "n", "d" >>
TxtChannelNotFound == << "C", "h", "a", "n", "n", "e", "l", " ", "n", "o", "t", " ", "f", "o", "u", "n", "d" >>
TxtExternalMedia == << "e", "x", "t", "e", "r", "n", "a", "l", "-", "m", "e", "d", "i", "a", "-" >>
TxtBridge == << "b", "r", "i", "d", "g", "e", "-" >>

\* the characters of one token of an id; the engine's ids are
\* "<epoch>.<n>", here 17000.1 and 17404.2
TokText(tok) ==
    CASE tok = "c1" -> << "1", "7", "0", "0", "0", ".", "1" >>
      [] tok = "c2" -> << "1", "7", "4", "0", "4", ".", "2" >>
      [] tok = "external-media" -> TxtExternalMedia
      [] tok = "bridge" -> TxtBridge
      [] OTHER -> << >>

RECURSIVE IdText(_)
IdText(id) == IF id = << >> THEN << >> ELSE TokText(Head(id)) \o IdText(Tail(id))

\* strings.Contains
Contains(s, sub) ==
    \E i \in 0..(Len(s) - Len(sub)) : SubSeq(s, i + 1, i + Len(sub)) = sub

\* what a control-client call can come back with
Outcomes == { "ok", "http404", "http500", "transport" }

\* makeRequest: the text of the error for a request on `path` with the
\* given method; a non-2xx status gives "ARI API error: %d - %s", a failure
\* of client.Do gives the *url.Error text `Op "URL": cause`
makeRequestErr(outcome, method, path) ==
    CASE outcome = "http404" -> TxtApiError \o Txt404 \o TxtDash \o TxtBodyNotFound
      [] outcome = "http500" -> TxtApiError \o Txt500 \o TxtDash \o TxtBodyInternal
      [] outcome = "transport" ->
            method \o TxtQuote \o TxtHttp \o TxtBaseURL \o path \o TxtQuote \o TxtRefused
      [] OTHER -> << >>

\* GetChannel: GET /ari/channels/{id}
GetChannelErr(outcome, channelID) ==
    makeRequestErr(outcome, TxtGet, TxtChannelsPath \o IdText(channelID))

\* AnswerChannel: POST /ari/channels/{id}/answer
AnswerChannelErr(outcome, channelID) ==
    makeRequestErr(outcome, TxtPost, TxtChannelsPath \o IdText(channelID) \o TxtAnswerPath)

\* a scrubber that looks for the words "HTTP 404", which no error text of
\* makeRequest carries
IsZombieErrStatusText(errStr) ==
    Contains(errStr, << "H", "T", "T", "P", " " >> \o Txt404)

\* cleanupZombieChannels: the test that decides a channel is a zombie
IsZombieErr(errStr) ==
    \/ Contains(errStr, Txt404)
    \/ Contains(errStr, TxtNotFoundLower)
    \/ Contains(errStr, TxtChannelNotFound)

\* a test that retries after every error
IsRetryableAnyErr(errStr) == TRUE

\* answerChannelWithRetry: the test that decides to retry
IsRetryableAnswerErr(errStr) == Contains(errStr, TxtChannelNotFound)

\* the two tests, tabulated over what a request can come back with
ZombieVerdict ==
    [ outcome \in Outcomes \ { "ok" }, channelID \in ChannelIDs |->
        IsZombieErr(GetChannelErr(outcome, channelID)) ]

RetryVerdict ==
    [ outcome \in Outcomes \ { "ok" }, channelID \in ChannelIDs |->
        IsRetryableAnswerErr(AnswerChannelErr(outcome, channelID)) ]

(* ------------------------------ port pool ------------------------------ *)
\* NewPortManager: every port of the range starts free
NewPortManager == [ p \in PortRange |-> FALSE ]

FreePorts(pm) == { p \in PortRange : ~pm[p] }

\* an allocator that hands out the highest free port
GetPortHighest(pool) ==
    IF FreePorts(pool) = {} THEN 0
    ELSE CHOOSE p \in FreePorts(pool) : \A q \in FreePorts(pool) : p >= q

\* a release that leaves the port marked
ReleaseNothing(pool, port) == pool

\* a release that flips the mark of the port
ReleasePortFlip(pool, port) ==
    IF port >= MinPort /\ port <= MaxPort THEN [ pool EXCEPT ![port] = ~@ ]
    ELSE pool

\* GetPort: the first free port in scan order, 0 with ErrNoPortsAvailable
GetPort(pm) ==
    IF FreePorts(pm) = {} THEN 0
    ELSE CHOOSE p \in FreePorts(pm) : \A q \in FreePorts(pm) : p <= q

\* ReleasePort: unmark, ignoring ports outside the range
ReleasePort(pm, port) ==
    IF port >= MinPort /\ port <= MaxPort THEN [ pm EXCEPT ![port] = FALSE ]
    ELSE pm

\* getUsedPortCount
getUsedPortCount == Cardinality({ p \in PortRange : ports[p] })

(* ------------------------------- Init ---------------------------------- *)
\* no begin event is being followed
NoAnswer == [ channelID |-> EmptyID, outs |-> << >>, calls |-> << >>,
              sleeps |-> << >> ]

AnswerIdle == ans = NoAnswer

\* before Start: s.conn is nil, no goroutine listens for events
NoStream == [ conn |-> "nil", loop |-> "none", wire |-> << >>,
              failed |-> FALSE, emitted |-> 0, handled |-> 0 ]

StreamIdle == stream = NoStream

\* startEventPolling before its first tick
NoPoll == [ ok |-> FALSE, list |-> << >>, events |-> << >> ]

PollIdle == knownChannels = {} /\ polled = NoPoll

PoolIdle == portManager = NewPortManager /\ pmCalls = << >>

\* NewWorker: stopChan is made, Start has not run, no Stop was called
NewWorker == [ started |-> "new", stopChan |-> "open", wg |-> FALSE,
               stops |-> << >> ]

StopIdle == rtpWorkers = [ r \in Rids |-> NewWorker ] /\ stopPanic = FALSE

\* NewLatencyTracker: an empty map
NewLatencyTracker == << >>

\* NewSequenceTracker: every field zero
NewSequenceTracker == [ lastOutgoingSeq |-> 0, lastIncomingSeq |-> 0,
                        outgoingCount |-> 0, incomingCount |-> 0,
                        droppedCount |-> << 0, 0 >> ]

RtpIdle ==
    /\ now = 0
    /\ sentTimes = NewLatencyTracker
    /\ sequenceTracker = NewSequenceTracker
    /\ rtpLog = << >>

\* the zero time.Time of a Worker or PacketPacer whose base was never set: it
\* lies before every clock value
ZeroTime == -1

\* NewPacketPacer and the base fields of a new Worker: all zero
NewBase == [ baseTimestamp |-> 0, baseTime |-> ZeroTime ]

\* a started worker before its first packet: the processor at its select
PaceIdle ==
    /\ pacer = NewBase
    /\ workerBase = NewBase
    /\ processor = [ pc |-> "select", ts |-> 0, wake |-> 0, stopBefore |-> FALSE ]
    /\ stopChan = "open"
    /\ connClosed = FALSE
    /\ paceNow = 0
    /\ writes = << >>

\* the ChannelMetrics that LoadOrStore stores for a channel without one
NewChannelMetrics ==
    [ Latencies |-> << >>, OutgoingPackets |-> 0, DroppedPackets |-> 0,
      LatePackets |-> 0 ]

\* NewMetrics: no channel, both global counters zero
MetricsIdle ==
    /\ channelMetrics = << >>
    /\ totalLatencies = 0
    /\ totalChannels = 0
    /\ metricCalls = 0
    /\ beginsHandled = 0

\* a started worker before its first datagram: an empty queue, both tasks
\* running
QueueIdle ==
    /\ packetChan = << >>
    /\ datagrams = << >>
    /\ readerTask = [ pc |-> "reading", arrivals |-> 0, dropped |-> 0 ]
    /\ processorTask = "select"
    /\ workerStop = "open"
    /\ queueNow = 0
    /\ queueSent = NewLatencyTracker
    /\ queueLog = << >>

UnitsIdle == AnswerIdle /\ StreamIdle /\ PollIdle /\ PoolIdle /\ StopIdle /\ RtpIdle /\ PaceIdle /\ MetricsIdle /\ QueueIdle

\* for each part, the other parts at rest
answerRestIdle == StreamIdle /\ PollIdle /\ PoolIdle /\ StopIdle /\ RtpIdle /\ PaceIdle /\ MetricsIdle /\ QueueIdle
streamRestIdle == AnswerIdle /\ PollIdle /\ PoolIdle /\ StopIdle /\ RtpIdle /\ PaceIdle /\ MetricsIdle /\ QueueIdle
pollRestIdle == AnswerIdle /\ StreamIdle /\ PoolIdle /\ StopIdle /\ RtpIdle /\ PaceIdle /\ MetricsIdle /\ QueueIdle
poolRestIdle == AnswerIdle /\ StreamIdle /\ PollIdle /\ StopIdle /\ RtpIdle /\ PaceIdle /\ MetricsIdle /\ QueueIdle
stopRestIdle == AnswerIdle /\ StreamIdle /\ PollIdle /\ PoolIdle /\ RtpIdle /\ PaceIdle /\ MetricsIdle /\ QueueIdle
rtpRestIdle == AnswerIdle /\ StreamIdle /\ PollIdle /\ PoolIdle /\ StopIdle /\ PaceIdle /\ MetricsIdle /\ QueueIdle
paceRestIdle == AnswerIdle /\ StreamIdle /\ PollIdle /\ PoolIdle /\ StopIdle /\ RtpIdle /\ MetricsIdle /\ QueueIdle
metricsRestIdle == AnswerIdle /\ StreamIdle /\ PollIdle /\ PoolIdle /\ StopIdle /\ RtpIdle /\ PaceIdle /\ QueueIdle
queueRestIdle == AnswerIdle /\ StreamIdle /\ PollIdle /\ PoolIdle /\ StopIdle /\ RtpIdle /\ PaceIdle /\ MetricsIdle

\* NewARIService: an empty pool, an empty map, no goroutine started yet
ServiceInit ==
    /\ ports = NewPortManager
    /\ channels = [ c \in ChannelIDs |-> NoHandler ]
    /\ handlers = [ r \in Rids |-> NoRecord ]
    /\ workers = [ r \in Rids |-> NoWorker ]
    /\ pc = [ p \in Procs |-> "idle" ]
    /\ evCh = EmptyID
    /\ evPort = 0
    /\ evBridge = EmptyID
    /\ evMirror = EmptyID
    /\ evResult = "none"
    /\ evUndo = {}
    /\ zCh = EmptyID
    /\ zOutcome = "none"
    /\ clH = [ p \in Procs |-> NoHandler ]
    /\ teardown = [ p \in Procs |-> << >> ]
    /\ echoPortOk \in BOOLEAN
    /\ shutdown = FALSE
    /\ crashed = FALSE

Init == ServiceInit /\ UnitsIdle

\* the service at rest, for the runs that follow one part of it
ServiceIdle == ServiceInit /\ echoPortOk

Alive == ~shutdown /\ ~crashed

\* the slots that hold no live ChannelHandler
FreeSlots == { r \in Rids : workers[r].started = "none" }

\* a ChannelHandler is reachable through the map or through the cleanup
\* closure that is running for it
HandlerReachable(h, chs, cl) ==
    \/ \E c \in ChannelIDs : chs[c] = h
    \/ \E p \in Procs : cl[p] = h

\* a Worker is reachable through its handler and through its own
\* goroutines: Start before it has run, and the tasks Start has started
WorkerReachable(h, ws, chs, cl) ==
    \/ HandlerReachable(h, chs, cl)
    \/ ws[h].started = "new"
    \/ ws[h].wg

\* the garbage collector frees what is unreachable
CollectHandlers(hs, chs, cl) ==
    [ h \in Rids |-> IF HandlerReachable(h, chs, cl) THEN hs[h] ELSE NoRecord ]

CollectWorkers(ws, chs, cl) ==
    [ h \in Rids |-> IF WorkerReachable(h, ws, chs, cl) THEN ws[h] ELSE NoWorker ]

\* Heap addresses carry no meaning: the objects are kept in a canonical
\* order, given by a number that identifies the contents of a slot
ChanIdx(c) ==
    IF c = EmptyID THEN 0 ELSE CHOOSE i \in 1..Len(ChannelList) : ChannelList[i] = c

StartedIdx(st) ==
    CASE st = "none" -> 0 [] st = "new" -> 1 [] st = "bindFailed" -> 2 [] OTHER -> 3

BoolIdx(b) == IF b THEN 1 ELSE 0

SlotCode(handler, worker) ==
    LET portIdx == IF worker.rtpPort = 0 THEN 0 ELSE worker.rtpPort - MinPort + 1
        stopIdx == BoolIdx(worker.stopChan = "closed")
        cleanIdx == IF handler.cleanups > 3 THEN 3 ELSE handler.cleanups
    IN ((((portIdx * 4 + StartedIdx(worker.started)) * 2 + stopIdx) * 2
            + BoolIdx(worker.wg))
            * (Len(ChannelList) + 1) + ChanIdx(handler.channelID)) * 4 + cleanIdx

\* the heap after a step that leaves handlers hs, workers ws, map chs and
\* running cleanups cl: unreachable objects are freed, the others keep
\* their contents and the references to them follow
Heap(hs, ws, chs, cl) ==
    \E hs1 \in { CollectHandlers(hs, chs, cl) } :
    \E ws1 \in { CollectWorkers(ws, chs, cl) } :
    \E code \in { [ h \in Rids |-> SlotCode(hs1[h], ws1[h]) ] } :
    \E pos \in { [ h \in Rids |->
                    1 + Cardinality({ k \in Rids :
                          code[k] > code[h] \/ (code[k] = code[h] /\ k < h) }) ] } :
    \E at \in { [ i \in Rids |-> CHOOSE h \in Rids : pos[h] = i ] } :
       /\ handlers' = [ i \in Rids |-> hs1[at[i]] ]
       /\ workers' = [ i \in Rids |-> ws1[at[i]] ]
       /\ channels' = [ c \in ChannelIDs |->
                          IF chs[c] = NoHandler THEN NoHandler ELSE pos[chs[c]] ]
       /\ clH' = [ p \in Procs |->
                     IF cl[p] = NoHandler THEN NoHandler ELSE pos[cl[p]] ]

(* ------------------------- begin handler ------------------------------- *)
\* handleStasisStart returns: the locals of the handler are gone
BeginReturns(result) ==
    /\ pc' = [ pc EXCEPT !["events"] = "idle" ]
    /\ evResult' = result
    /\ evCh' = EmptyID
    /\ evPort' = 0
    /\ evBridge' = EmptyID
    /\ evMirror' = EmptyID

\* answerChannelWithRetry(channelID, 3, 100ms), from iteration i on: outs[i+1]
\* is what the engine answers to the attempt of iteration i.  TRUE when the
\* channel was answered.
RECURSIVE answerChannelWithRetry(_, _, _)
answerChannelWithRetry(outs, channelID, i) ==
    IF i >= AnswerMaxRetries THEN FALSE
    ELSE IF outs[i + 1] = "ok" THEN TRUE
    ELSE IF RetryVerdict[outs[i + 1], channelID]
    THEN answerChannelWithRetry(outs, channelID, i + 1)
    ELSE FALSE

\* what answerChannelWithRetry can return for a channel, over everything the
\* engine can answer to the attempts
AnswerResults ==
    [ channelID \in ChannelIDs |->
        { answerChannelWithRetry(outs, channelID, 0) :
            outs \in [ 1..AnswerMaxRetries -> Outcomes ] } ]

\* createChannel up to its first engine call: s.portManager.GetPort(), then
\* strconv.Atoi(s.config.EchoPort), which releases the port again when the
\* configured echo port is no number.  At most MaxRecords ChannelHandler
\* objects are live: a port is handed out only while a slot is free for the
\* handler that will own it.
createChannelGetPort(channelID) ==
    LET port == GetPort(ports) IN
       IF port = 0
       THEN /\ BeginReturns("exhausted")
            /\ UNCHANGED ports
       ELSE IF FreeSlots = {}
       THEN FALSE
       ELSE IF ~echoPortOk
       THEN /\ ports' = ReleasePort([ ports EXCEPT ![port] = TRUE ], port)
            /\ BeginReturns("invalidEchoPort")
       ELSE /\ ports' = [ ports EXCEPT ![port] = TRUE ]
            /\ evPort' = port
            /\ evCh' = channelID
            /\ evResult' = "running"
            /\ pc' = [ pc EXCEPT !["events"] = "createBridge" ]
            /\ UNCHANGED << evBridge, evMirror >>

\* processWebSocketMessages / pollChannels hand one event at a time to
\* handleWebSocketMessage; a StasisStart goes to handleStasisStart, which
\* answers the channel and then calls createChannel
handleStasisStartStep(c) ==
    /\ Alive
    /\ pc["events"] = "idle"
    /\ \E answered \in AnswerResults[c] :
          IF answered
          THEN createChannelGetPort(c)
          ELSE /\ BeginReturns("answerFailed")
               /\ UNCHANGED ports
    /\ evUndo' = {}
    /\ UNCHANGED << channels, handlers, workers, zVars, clH, teardown, procVars >>

\* the same step in the service, where the parts followed on their own rest
handleStasisStart(c) == handleStasisStartStep(c) /\ UNCHANGED unitVars

\* a wiring failure that returns the error and forgets the port
WiringFailsKeepsPort ==
    /\ ports' = ports
    /\ BeginReturns("wiringFailed")

\* what createChannel does when a step after GetPort returns an error:
\* release the port and return the error
WiringFails ==
    /\ ports' = ReleasePort(ports, evPort)
    /\ BeginReturns("wiringFailed")

\* createChannel: s.client.CreateBridge
CreateBridgeStep ==
    /\ Alive
    /\ pc["events"] = "createBridge"
    /\ \E outcome \in Outcomes :
          IF outcome = "ok"
          THEN /\ evBridge' = BridgeID(evCh)
               /\ pc' = [ pc EXCEPT !["events"] = "createMirror" ]
               /\ UNCHANGED << ports, evCh, evPort, evMirror, evResult >>
          ELSE WiringFails
    /\ UNCHANGED << channels, handlers, workers, evUndo, zVars, clH, teardown,
                    procVars >>

\* the same step in the service, where the parts followed on their own rest
CreateBridge == CreateBridgeStep /\ UNCHANGED unitVars

\* createChannel: s.client.CreateExternalMedia
CreateExternalMediaStep ==
    /\ Alive
    /\ pc["events"] = "createMirror"
    /\ \E outcome \in Outcomes :
          IF outcome = "ok"
          THEN /\ evMirror' = ExternalMediaID(evCh)
               /\ pc' = [ pc EXCEPT !["events"] = "attach1" ]
               /\ UNCHANGED << ports, evCh, evPort, evBridge, evResult >>
          ELSE WiringFails
    /\ UNCHANGED << channels, handlers, workers, evUndo, zVars, clH, teardown,
                    procVars >>

\* the same step in the service, where the parts followed on their own rest
CreateExternalMedia == CreateExternalMediaStep /\ UNCHANGED unitVars

\* createChannel: s.client.AddChannelToBridge(bridge.ID, channelID)
AddChannelToBridgeStep ==
    /\ Alive
    /\ pc["events"] = "attach1"
    /\ \E outcome \in Outcomes :
          IF outcome = "ok"
          THEN /\ pc' = [ pc EXCEPT !["events"] = "attach2" ]
               /\ UNCHANGED << ports, evCh, evPort, evBridge, evMirror, evResult >>
          ELSE WiringFails
    /\ UNCHANGED << channels, handlers, workers, evUndo, zVars, clH, teardown,
                    procVars >>

\* the same step in the service, where the parts followed on their own rest
AddChannelToBridge == AddChannelToBridgeStep /\ UNCHANGED unitVars

\* createChannel, once the wiring is done: rtp.NewWorker, go worker.Start(),
\* the ChannelHandler with its cleanup closure, s.channels.Store
StoreHandler ==
    /\ FreeSlots # {}
    /\ LET h == CHOOSE r \in FreeSlots : \A q \in FreeSlots : r <= q
           hs == [ handlers EXCEPT ![h] =
                      [ channelID |-> evCh, externalMediaID |-> evMirror,
                        bridgeID |-> evBridge, rtpPort |-> evPort,
                        cleanups |-> 0 ] ]
           ws == [ workers EXCEPT ![h] = [ NoWorker EXCEPT !.started = "new",
                                                           !.rtpPort = evPort ] ]
           chs == [ channels EXCEPT ![evCh] = h ]
       IN Heap(hs, ws, chs, clH)
    /\ BeginReturns("ok")
    /\ UNCHANGED ports

\* createChannel: s.client.AddChannelToBridge(bridge.ID, externalMediaID);
\* when it succeeds the handler goes on, without another blocking call, to
\* start the worker and store the ChannelHandler
AddExternalMediaToBridgeStep ==
    /\ Alive
    /\ pc["events"] = "attach2"
    /\ \E outcome \in Outcomes :
          IF outcome = "ok"
          THEN StoreHandler
          ELSE /\ WiringFails
               /\ UNCHANGED << channels, handlers, workers, clH >>
    /\ UNCHANGED << evUndo, zVars, teardown, procVars >>

\* the same step in the service, where the parts followed on their own rest
AddExternalMediaToBridge == AddExternalMediaToBridgeStep /\ UNCHANGED unitVars

(* --------------------------- end handler ------------------------------- *)
\* a Load in the place of LoadAndDelete: the entry stays
LoadOnly(m, key) == m

\* sync.Map.LoadAndDelete: the map after the call
LoadAndDelete(m, key) == [ m EXCEPT ![key] = NoHandler ]

\* cleanupChannel(key) called by process p: LoadAndDelete, return when
\* nothing was found, else enter handler.cleanup, which starts with
\* Worker.Stop: close(w.stopChan), and closing a closed channel panics;
\* then Stop blocks in w.wg.Wait()
cleanupChannel(p, key) ==
    LET h == channels[key] IN
       IF h = NoHandler
       THEN /\ pc' = [ pc EXCEPT ![p] = "idle" ]
            /\ UNCHANGED << channels, handlers, workers, clH, teardown, crashed >>
       ELSE /\ Heap([ handlers EXCEPT ![h].cleanups = @ + 1 ],
                    [ workers EXCEPT ![h].stopChan = "closed" ],
                    LoadAndDelete(channels, key),
                    [ clH EXCEPT ![p] = h ])
            /\ crashed' = (workers[h].stopChan = "closed")
            /\ teardown' = [ teardown EXCEPT ![p] = << "remove" >> ]
            /\ pc' = [ pc EXCEPT ![p] = "wait" ]

\* a StasisEnd goes to handleStasisEnd, which calls cleanupChannel
handleStasisEnd(c) ==
    /\ Alive
    /\ pc["events"] = "idle"
    /\ cleanupChannel("events", c)
    /\ evResult' = "none"
    /\ evUndo' = {}
    /\ UNCHANGED << ports, evCh, evPort, evBridge, evMirror, zVars, echoPortOk,
                    shutdown >>
    /\ UNCHANGED unitVars

\* handler.cleanup: the requests it sends to the engine, in order:
\* HangupChannel(externalMediaID) when the id is not empty, then
\* DeleteBridge(bridge.ID) when the id is not empty
EngineTeardown(handler) ==
    (IF handler.externalMediaID # EmptyID THEN << "hangup" >> ELSE << >>)
    \o (IF handler.bridgeID # EmptyID THEN << "destroy" >> ELSE << >>)

\* a closure that gives the port back before it stops the worker
cleanupReleaseFirst(handler) == << "release", "stop" >> \o EngineTeardown(handler)

\* handler.cleanup, the closure built by createChannel: what it does, in
\* order: worker.Stop(), s.portManager.ReleasePort(rtpPort), the engine
\* requests
cleanup(handler) == << "stop", "release" >> \o EngineTeardown(handler)

\* the pool after the steps of a cleanup closure
RECURSIVE PortsAfter(_, _, _)
PortsAfter(pm, steps, port) ==
    IF steps = << >> THEN pm
    ELSE PortsAfter(IF Head(steps) = "release" THEN ReleasePort(pm, port) ELSE pm,
                    Tail(steps), port)

\* Worker.Stop returns when w.wg.Wait() does, that is when no task of the
\* worker is left; handler.cleanup then runs to its end
CleanupFinish(p) ==
    /\ Alive
    /\ pc[p] = "wait"
    /\ ~workers[clH[p]].wg
    /\ ports' = PortsAfter(ports, cleanup(handlers[clH[p]]), handlers[clH[p]].rtpPort)
    /\ teardown' = [ teardown EXCEPT ![p] = @ \o cleanup(handlers[clH[p]]) ]
    /\ pc' = [ pc EXCEPT ![p] = "done" ]
    /\ UNCHANGED << channels, handlers, workers, evVars, zVars, clH, procVars >>
    /\ UNCHANGED unitVars

\* cleanupChannel logs "Cleaned up channel" and returns to its caller:
\* handleStasisEnd returns to the event loop, the scrubber goes on with its
\* Range
CleanupReturns(p) ==
    /\ Alive
    /\ pc[p] = "done"
    /\ pc' = [ pc EXCEPT ![p] = "idle" ]
    /\ teardown' = [ teardown EXCEPT ![p] = << >> ]
    /\ Heap(handlers, workers, channels, [ clH EXCEPT ![p] = NoHandler ])
    /\ zOutcome' = IF p = "zombie" THEN "none" ELSE zOutcome
    /\ UNCHANGED << ports, evVars, zCh, procVars >>
    /\ UNCHANGED unitVars

(* --------------------------- zombie scrubber --------------------------- *)
\* startZombieCleanup / cleanupZombieChannels: one call of the Range
\* callback, for a key that is in s.channels, up to the return of
\* s.client.GetChannel(channelID).  A lookup that finds the channel has no
\* effect, so a round that visits every key once is a sequence of such calls.
cleanupZombieChannels(c) ==
    /\ Alive
    /\ pc["zombie"] = "idle"
    /\ channels[c] # NoHandler
    /\ \E outcome \in Outcomes :
          IF outcome = "ok"
          THEN UNCHANGED << pc, zCh, zOutcome >>
          ELSE /\ pc' = [ pc EXCEPT !["zombie"] = "checked" ]
               /\ zCh' = c
               /\ zOutcome' = outcome
    /\ UNCHANGED << lifeVars, evVars, clH, teardown, procVars >>
    /\ UNCHANGED unitVars

\* cleanupZombieChannels: the test on the error text, and cleanupChannel
\* when it says the channel is gone
ZombieCheck ==
    /\ Alive
    /\ pc["zombie"] = "checked"
    /\ IF ZombieVerdict[zOutcome, zCh]
       THEN /\ cleanupChannel("zombie", zCh)
            /\ zOutcome' = IF channels[zCh] = NoHandler THEN "none" ELSE zOutcome
       ELSE /\ pc' = [ pc EXCEPT !["zombie"] = "idle" ]
            /\ zOutcome' = "none"
            /\ UNCHANGED << channels, handlers, workers, clH, teardown, crashed >>
    /\ zCh' = EmptyID
    /\ UNCHANGED << ports, evVars, echoPortOk, shutdown >>
    /\ UNCHANGED unitVars

(* ------------------------------ worker --------------------------------- *)
\* Worker.Start, run by `go worker.Start()`: it returns early when the
\* socket cannot be bound, else it binds and starts the two tasks
Start(r) ==
    /\ Alive
    /\ workers[r].started = "new"
    /\ \E bound \in BOOLEAN :
          LET ws == IF bound
                    THEN [ workers EXCEPT ![r].started = "running",
                                          ![r].wg = TRUE ]
                    ELSE [ workers EXCEPT ![r].started = "bindFailed" ]
          IN Heap(handlers, ws, channels, clH)
    /\ UNCHANGED << ports, pc, evVars, zVars, teardown, procVars >>
    /\ UNCHANGED unitVars

\* packetReader and packetProcessor: each returns at `case <-w.stopChan`,
\* the reader with its deferred w.conn.Close(), both with the deferred
\* w.wg.Done().  Only wg.Wait looks at them, and it waits for both, so the
\* two returns are one step.
TasksExit(r) ==
    /\ Alive
    /\ workers[r].wg
    /\ workers[r].stopChan = "closed"
    /\ Heap(handlers, [ workers EXCEPT ![r].wg = FALSE ], channels, clH)
    /\ UNCHANGED << ports, pc, evVars, zVars, teardown, procVars >>
    /\ UNCHANGED unitVars

(* ----------------------------- shutdown -------------------------------- *)
\* ARIService.Start after <-ctx.Done(): printSLAReport, s.server.Shutdown;
\* main returns and the process exits, which ends every goroutine where it
\* stands
Shutdown ==
    /\ Alive
    /\ shutdown' = TRUE
    /\ pc' = [ p \in Procs |-> "exited" ]
    /\ evCh' = EmptyID
    /\ evPort' = 0
    /\ evBridge' = EmptyID
    /\ evMirror' = EmptyID
    /\ evResult' = "none"
    /\ evUndo' = {}
    /\ zCh' = EmptyID
    /\ zOutcome' = "none"
    /\ clH' = [ p \in Procs |-> NoHandler ]
    /\ teardown' = [ p \in Procs |-> << >> ]
    /\ UNCHANGED << lifeVars, echoPortOk, crashed >>
    /\ UNCHANGED unitVars

(* ------------------------------- Next ---------------------------------- *)
Next ==
    \/ \E c \in ChannelIDs : handleStasisStart(c)
    \/ \E c \in ChannelIDs : handleStasisEnd(c)
    \/ CreateBridge
    \/ CreateExternalMedia
    \/ AddChannelToBridge
    \/ AddExternalMediaToBridge
    \/ \E p \in Procs : CleanupFinish(p)
    \/ \E p \in Procs : CleanupReturns(p)
    \/ \E c \in ChannelIDs : cleanupZombieChannels(c)
    \/ ZombieCheck
    \/ \E r \in Rids : Start(r)
    \/ \E r \in Rids : TasksExit(r)
    \/ Shutdown

Spec == Init /\ [][Next]_vars

(* ------------------ one begin event, attempt by attempt ---------------- *)
\* how many answers of the engine a followed begin event is scripted with:
\* one more than the loop of answerChannelWithRetry can ask for
MaxAnswers == 4

\* the retryDelay handleStasisStart passes, in milliseconds
AnswerRetryDelay == 100

\* the AnswerChannel calls answerChannelWithRetry makes from iteration i on,
\* each with what the engine answered: an answered call returns nil, an
\* error that carries "Channel not found" goes round the loop again, any
\* other error is returned at once
RECURSIVE answerCalls(_, _, _)
answerCalls(outs, channelID, i) ==
    IF i >= AnswerMaxRetries THEN << >>
    ELSE IF outs[i + 1] = "ok" THEN << "ok" >>
    ELSE IF RetryVerdict[outs[i + 1], channelID]
    THEN << outs[i + 1] >> \o answerCalls(outs, channelID, i + 1)
    ELSE << outs[i + 1] >>

\* the time.Sleep(retryDelay) calls of the same run: one after every
\* attempt that came back with "Channel not found"
RECURSIVE answerSleeps(_, _, _)
answerSleeps(outs, channelID, i) ==
    IF i >= AnswerMaxRetries THEN << >>
    ELSE IF outs[i + 1] = "ok" THEN << >>
    ELSE IF RetryVerdict[outs[i + 1], channelID]
    THEN << AnswerRetryDelay >> \o answerSleeps(outs, channelID, i + 1)
    ELSE << >>

\* handleStasisStart for a StasisStart of channel c while the engine answers
\* the AnswerChannel calls with outs, in that order
handleStasisStartAnswering(c, outs) ==
    /\ Alive
    /\ pc["events"] = "idle"
    /\ ans' = [ channelID |-> c, outs |-> outs,
                calls |-> answerCalls(outs, c, 0),
                sleeps |-> answerSleeps(outs, c, 0) ]
    /\ IF answerChannelWithRetry(outs, c, 0)
       THEN createChannelGetPort(c)
       ELSE /\ BeginReturns("answerFailed")
            /\ UNCHANGED ports
    /\ evUndo' = {}
    /\ UNCHANGED << channels, handlers, workers, zVars, clH, teardown, procVars >>
    /\ UNCHANGED answerRest

InitAnswer == ServiceInit /\ AnswerIdle /\ answerRestIdle

NextAnswer ==
    \E c \in ChannelIDs : \E outs \in [ 1..MaxAnswers -> Outcomes ] :
        handleStasisStartAnswering(c, outs)

SpecAnswer == InitAnswer /\ [][NextAnswer]_allVars

(* ----------------------- the engine's event stream -------------------- *)
\* how many events the engine emits in a followed run
MaxEvents == 3

\* the events the handlers act on
EngineEvents == { << type, c >> : type \in { "StasisStart", "StasisEnd" },
                                  c \in ChannelIDs }

\* Start: connectToAsterisk dials the engine once.  When the dial succeeds
\* s.conn is set and processWebSocketMessages is started on it; when it fails
\* Start falls back to startEventPolling.
connectToAsterisk(ok) ==
    /\ stream.loop = "none"
    /\ stream' = IF ok
                 THEN [ stream EXCEPT !.conn = "open", !.loop = "reading" ]
                 ELSE [ stream EXCEPT !.loop = "polling" ]
    /\ UNCHANGED << vars, streamRest >>

\* the engine emits a begin or an end: it goes out on the open connection,
\* or shows in the channel list a poll will fetch; with the connection gone
\* and no poller there is nowhere for it to go.  Events emitted after a
\* transport failure are counted.
EngineEmits(e) ==
    /\ stream.loop # "none"
    /\ stream.emitted + Len(stream.wire) < MaxEvents
    /\ stream' = [ stream EXCEPT
                     !.wire = IF stream.conn = "open" \/ stream.loop = "polling"
                              THEN Append(@, << e, stream.failed >>) ELSE @,
                     !.emitted = IF stream.failed THEN @ + 1 ELSE @ ]
    /\ UNCHANGED << vars, streamRest >>

\* processWebSocketMessages: s.conn.ReadMessage returns a message, which is
\* handed to handleWebSocketMessage
ReadMessage ==
    /\ stream.loop = "reading"
    /\ stream.conn = "open"
    /\ stream.wire # << >>
    /\ stream' = [ stream EXCEPT
                     !.wire = Tail(@),
                     !.handled = IF Head(stream.wire)[2] THEN @ + 1 ELSE @ ]
    /\ UNCHANGED << vars, streamRest >>

\* the transport of the event stream fails: what was in flight is lost,
\* s.conn.ReadMessage returns an error and processWebSocketMessages returns
ReadMessageFails ==
    /\ stream.loop = "reading"
    /\ stream.conn = "open"
    /\ stream' = [ stream EXCEPT !.conn = "broken", !.loop = "returned",
                                 !.wire = << >>, !.failed = TRUE ]
    /\ UNCHANGED << vars, streamRest >>

\* startEventPolling: a tick whose pollChannels succeeds hands every change
\* of the channel list to handleWebSocketMessage
PollTick ==
    /\ stream.loop = "polling"
    /\ stream.wire # << >>
    /\ stream' = [ stream EXCEPT
                     !.wire = << >>,
                     !.handled = @ + Cardinality({ k \in 1..Len(stream.wire) :
                                                     stream.wire[k][2] }) ]
    /\ UNCHANGED << vars, streamRest >>

\* startEventPolling: a tick whose pollChannels returns an error, which is
\* logged; the next tick polls again
PollTickFails ==
    /\ stream.loop = "polling"
    /\ ~stream.failed
    /\ stream' = [ stream EXCEPT !.failed = TRUE ]
    /\ UNCHANGED << vars, streamRest >>

InitStream == ServiceIdle /\ StreamIdle /\ streamRestIdle

NextStream ==
    \/ \E ok \in BOOLEAN : connectToAsterisk(ok)
    \/ \E e \in EngineEvents : EngineEmits(e)
    \/ ReadMessage
    \/ ReadMessageFails
    \/ PollTick
    \/ PollTickFails

\* the goroutines that listen for events keep running while they can
SpecStream ==
    /\ InitStream
    /\ [][NextStream]_allVars
    /\ WF_allVars(ReadMessage)
    /\ WF_allVars(PollTick)

(* --------------------------- polling fallback -------------------------- *)
\* how many channels the engine lists in one poll
MaxListed == 2

\* the ids a poll can list: the calls and the mirror channels made for them
PollIDs == ChannelIDs \cup { ExternalMediaID(c) : c \in ChannelIDs }

\* what GetChannels can return when it succeeds
PollLists == UNION { [ 1..n -> PollIDs ] : n \in 0..MaxListed }

\* pollChannels: currentChannels, the list turned into a set of ids
currentChannels(list) == { list[i] : i \in 1..Len(list) }

\* the orders in which a range over a map with the keys S can visit them
RangeOrders(S) ==
    { o \in [ 1..Cardinality(S) -> S ] :
        \A i, j \in 1..Cardinality(S) : i # j => o[i] # o[j] }

\* a remembered set that only ever grows
knownAfterAdding(known, current) == known \cup current

\* pollChannels: knownChannels after its two closing loops, the first adds
\* every current id, the second deletes every id that is not current
knownAfter(known, current) ==
    (known \cup current) \ { id \in known \cup current : id \notin current }

\* one tick of startEventPolling: pollChannels(knownChannels).  A failed
\* GetChannels returns before anything else; otherwise one StasisStart is
\* handed to handleWebSocketMessage for every current id that is not
\* remembered, then one StasisEnd for every remembered id that is not
\* current, and the remembered set is updated.
pollChannels(ok, list) ==
    /\ IF ~ok
       THEN /\ polled' = NoPoll
            /\ UNCHANGED knownChannels
       ELSE \E begins \in RangeOrders(currentChannels(list) \ knownChannels) :
            \E ends \in RangeOrders(knownChannels \ currentChannels(list)) :
               /\ polled' = [ ok |-> TRUE, list |-> list,
                              events |->
                                [ i \in 1..Len(begins) |-> << "StasisStart", begins[i] >> ]
                                \o [ i \in 1..Len(ends) |-> << "StasisEnd", ends[i] >> ] ]
               /\ knownChannels' = knownAfter(knownChannels, currentChannels(list))
    /\ UNCHANGED << vars, pollRest >>

InitPoll == ServiceIdle /\ PollIdle /\ pollRestIdle

NextPoll ==
    \/ \E list \in PollLists : pollChannels(TRUE, list)
    \/ pollChannels(FALSE, << >>)

SpecPoll == InitPoll /\ [][NextPoll]_allVars

(* ----------------------- the port pool, call by call ------------------- *)
\* how many calls are made on the followed pool
MaxPoolCalls == 5

\* the ports a caller may hand to ReleasePort: the range and its neighbours
ReleaseArgs == (MinPort - 1)..(MaxPort + 1)

\* GetPort(): the lowest free port is marked and returned, or 0 with
\* ErrNoPortsAvailable
CallGetPort ==
    /\ Len(pmCalls) < MaxPoolCalls
    /\ \E port \in { GetPort(portManager) } :
          /\ portManager' = IF port = 0 THEN portManager ELSE [ portManager EXCEPT ![port] = TRUE ]
          /\ pmCalls' = Append(pmCalls, [ op |-> "GetPort", port |-> port,
                                          before |-> portManager ])
    /\ UNCHANGED << vars, poolRest >>

\* ReleasePort(port)
CallReleasePort(port) ==
    /\ Len(pmCalls) < MaxPoolCalls
    /\ portManager' = ReleasePort(portManager, port)
    /\ pmCalls' = Append(pmCalls, [ op |-> "ReleasePort", port |-> port,
                                    before |-> portManager ])
    /\ UNCHANGED << vars, poolRest >>

InitPool == ServiceIdle /\ PoolIdle /\ poolRestIdle

NextPool ==
    \/ CallGetPort
    \/ \E port \in ReleaseArgs : CallReleasePort(port)

SpecPool == InitPool /\ [][NextPool]_allVars

(* ------------------------ a worker and its Stop ------------------------ *)
\* how many times Stop is called on one worker
MaxStops == 2

\* Worker.Start, run by the goroutine createChannel starts for it: the
\* socket is bound and the two tasks are added to w.wg, or Start returns at
\* a failed bind
WorkerStart(r, bound) ==
    /\ ~stopPanic
    /\ rtpWorkers[r].started = "new"
    /\ rtpWorkers' = IF bound
                     THEN [ rtpWorkers EXCEPT ![r].started = "running",
                                              ![r].wg = TRUE ]
                     ELSE [ rtpWorkers EXCEPT ![r].started = "bindFailed" ]
    /\ UNCHANGED << vars, stopRest, stopPanic >>

\* packetReader and packetProcessor return at `case <-w.stopChan`
WorkerTasksExit(r) ==
    /\ ~stopPanic
    /\ rtpWorkers[r].wg
    /\ rtpWorkers[r].stopChan = "closed"
    /\ rtpWorkers' = [ rtpWorkers EXCEPT ![r].wg = FALSE ]
    /\ UNCHANGED << vars, stopRest, stopPanic >>

\* Worker.Stop up to w.wg.Wait(): close(w.stopChan), which panics when the
\* channel is closed already.  A caller calls Stop again only after its
\* earlier call has returned.
WorkerStop(r) ==
    /\ ~stopPanic
    /\ Len(rtpWorkers[r].stops) < MaxStops
    /\ \A k \in 1..Len(rtpWorkers[r].stops) : rtpWorkers[r].stops[k] = "returned"
    /\ IF rtpWorkers[r].stopChan = "closed"
       THEN /\ rtpWorkers' = [ rtpWorkers EXCEPT ![r].stops = Append(@, "panicked") ]
            /\ stopPanic' = TRUE
       ELSE /\ rtpWorkers' = [ rtpWorkers EXCEPT ![r].stopChan = "closed",
                                                 ![r].stops = Append(@, "waiting") ]
            /\ UNCHANGED stopPanic
    /\ UNCHANGED << vars, stopRest >>

\* Worker.Stop: w.wg.Wait() returns when no task is left, and Stop returns
WorkerStopReturns(r) ==
    /\ ~stopPanic
    /\ rtpWorkers[r].stops # << >>
    /\ rtpWorkers[r].stops[Len(rtpWorkers[r].stops)] = "waiting"
    /\ ~rtpWorkers[r].wg
    /\ rtpWorkers' = [ rtpWorkers EXCEPT ![r].stops[Len(rtpWorkers[r].stops)] = "returned" ]
    /\ UNCHANGED << vars, stopRest, stopPanic >>

InitStop == ServiceIdle /\ StopIdle /\ stopRestIdle

NextStop ==
    \/ \E r \in Rids : \E bound \in BOOLEAN : WorkerStart(r, bound)
    \/ \E r \in Rids : WorkerTasksExit(r)
    \/ \E r \in Rids : WorkerStop(r)
    \/ \E r \in Rids : WorkerStopReturns(r)

SpecStop == InitStop /\ [][NextStop]_allVars

(* ---------------------- the packet path of a worker -------------------- *)
\* how many packets the followed packetProcessor handles
MaxPackets == 4

\* how far the clock of the followed run goes, in seconds
MaxClock == 4

\* the age, in seconds, beyond which RecordSent drops an entry
MaxAge == 3

Uint16 == 65536

\* a uint32 as its two 16-bit halves, the high one first: the value of the
\* integer x modulo 2^32
ToUint32(x) == << (x \div Uint16) % Uint16, x % Uint16 >>

\* the sum of two uint32, modulo 2^32
AddUint32(a, b) ==
    << (a[1] + b[1] + ((a[2] + b[2]) \div Uint16)) % Uint16,
       (a[2] + b[2]) % Uint16 >>

\* the RTP sequence numbers of the followed packets: the values around the
\* wrap of the 16-bit counter
SeqValues == { 65534, 65535, 0 }

\* no RTT sample
NoSample == -1

\* a lookup that leaves the entry in the map
GetLatencyKeep(sent, seq) == sent

\* LatencyTracker.RecordSent(seq, sendTime) at time clock: the entry is set,
\* then every entry sent before clock - 3 s is deleted
RecordSent(sent, seq, sendTime, clock) ==
    LET put == [ s \in DOMAIN sent \cup { seq } |->
                   IF s = seq THEN sendTime ELSE sent[s] ]
    IN  [ s \in { x \in DOMAIN put : ~(put[x] < clock - MaxAge) } |-> put[s] ]

\* LatencyTracker.GetLatency(seq): whether an entry exists
GetLatencyFound(sent, seq) == seq \in DOMAIN sent

\* LatencyTracker.GetLatency(seq): time.Since(sendTime) of an existing entry
GetLatency(sent, seq, clock) == clock - sent[seq]

\* LatencyTracker.GetLatency(seq): the map afterwards, the entry deleted
GetLatencyAfter(sent, seq) == [ s \in DOMAIN sent \ { seq } |-> sent[s] ]

\* a TrackOutgoing that does not count the packet
TrackOutgoingUncounted(t, seq) == [ t EXCEPT !.lastOutgoingSeq = seq ]

\* SequenceTracker.TrackOutgoing(seq); the two packet counters stay far
\* below 2^32 in a run of MaxPackets packets
TrackOutgoing(t, seq) ==
    [ t EXCEPT !.lastOutgoingSeq = seq,
               !.outgoingCount = @ + 1 ]

\* SequenceTracker.TrackIncoming(seq): is a gap detected
TrackIncomingGap(t, seq) ==
    /\ t.lastIncomingSeq # 0
    /\ seq # (t.lastIncomingSeq + 1) % Uint16

\* SequenceTracker.TrackIncoming(seq): the value it returns, in uint32
\* arithmetic
TrackIncomingDropped(t, seq) ==
    IF ~TrackIncomingGap(t, seq) THEN ToUint32(0)
    ELSE IF seq < t.lastIncomingSeq
    THEN ToUint32((Uint16 - 1 - t.lastIncomingSeq) + seq - 1)
    ELSE ToUint32(seq - t.lastIncomingSeq - 1)

\* SequenceTracker.TrackIncoming(seq): the tracker afterwards; the return
\* inside the gap branch leaves lastIncomingSeq as it was
TrackIncoming(t, seq) ==
    IF TrackIncomingGap(t, seq)
    THEN [ t EXCEPT !.incomingCount = @ + 1,
                    !.droppedCount = AddUint32(@, TrackIncomingDropped(t, seq)) ]
    ELSE [ t EXCEPT !.incomingCount = @ + 1,
                    !.lastIncomingSeq = seq ]

\* packetProcessor takes a packet that came from the engine:
\* handleOutgoingPacket records the send time and the sequence number and
\* forwards the packet to the echo server
handleOutgoingPacket(seq) ==
    /\ Len(rtpLog) < MaxPackets
    /\ sentTimes' = RecordSent(sentTimes, seq, now, now)
    /\ sequenceTracker' = TrackOutgoing(sequenceTracker, seq)
    /\ rtpLog' = Append(rtpLog, [ op |-> "out", seq |-> seq, had |-> FALSE,
                                  rtt |-> NoSample, last |-> 0, dropped |-> ToUint32(0) ])
    /\ UNCHANGED << vars, rtpRest, now >>

\* packetProcessor takes a packet that came from the echo server:
\* handleIncomingPacket looks the sequence number up; a found entry gives
\* the RTT sample handed to metrics.RecordLatency and the packet goes
\* through TrackIncoming; the packet is sent back to the engine either way
handleIncomingPacket(seq) ==
    /\ Len(rtpLog) < MaxPackets
    /\ IF GetLatencyFound(sentTimes, seq)
       THEN /\ sentTimes' = GetLatencyAfter(sentTimes, seq)
            /\ sequenceTracker' = TrackIncoming(sequenceTracker, seq)
            /\ rtpLog' = Append(rtpLog,
                  [ op |-> "in", seq |-> seq, had |-> seq \in DOMAIN sentTimes,
                    rtt |-> GetLatency(sentTimes, seq, now),
                    last |-> sequenceTracker.lastIncomingSeq,
                    dropped |-> TrackIncomingDropped(sequenceTracker, seq) ])
       ELSE /\ rtpLog' = Append(rtpLog,
                  [ op |-> "in", seq |-> seq, had |-> seq \in DOMAIN sentTimes,
                    rtt |-> NoSample, last |-> 0, dropped |-> ToUint32(0) ])
            /\ UNCHANGED << sentTimes, sequenceTracker >>
    /\ UNCHANGED << vars, rtpRest, now >>

\* a second passes
Tick ==
    /\ now < MaxClock
    /\ now' = now + 1
    /\ UNCHANGED << vars, rtpRest, sentTimes, sequenceTracker, rtpLog >>

InitRtp == ServiceIdle /\ RtpIdle /\ rtpRestIdle

NextRtp ==
    \/ \E seq \in SeqValues : handleOutgoingPacket(seq)
    \/ \E seq \in SeqValues : handleIncomingPacket(seq)
    \/ Tick

SpecRtp == InitRtp /\ [][NextRtp]_allVars

(* ---------------------- the sequence meter, call by call ---------------- *)
\* the sequence numbers handed to the followed SequenceTracker: low
\* numbers, among them 0, and the two below the wrap of the 16-bit counter
MeterSeqs == 0..4 \cup { 65534, 65535 }

\* a caller hands the sequence number of a return to TrackIncoming; the
\* call is recorded with the lastIncomingSeq it met and the gap it returned
CallTrackIncoming(seq) ==
    /\ Len(rtpLog) < MaxPackets
    /\ sequenceTracker' = TrackIncoming(sequenceTracker, seq)
    /\ rtpLog' = Append(rtpLog,
          [ op |-> "in", seq |-> seq, had |-> TRUE, rtt |-> 0,
            last |-> sequenceTracker.lastIncomingSeq,
            dropped |-> TrackIncomingDropped(sequenceTracker, seq) ])
    /\ UNCHANGED << vars, rtpRest, now, sentTimes >>

InitSeq == ServiceIdle /\ RtpIdle /\ rtpRestIdle

NextSeq == \E seq \in MeterSeqs : CallTrackIncoming(seq)

SpecSeq == InitSeq /\ [][NextSeq]_allVars

(* ------------- the processor of a worker: pacing, lateness, stop -------- *)
\* how many packets the followed packetProcessor takes
MaxPaced == 3

\* how far the clock of the followed processor goes, in packet intervals
MaxPaceTime == 3

\* NewPacketPacer(8000), and the 8000 of checkLatePacket
SampleRate == 8000

\* the followed clock counts packet intervals of 20 ms: 160 samples each
TickSamples == SampleRate \div 50

\* the media timestamps of the followed packets: 0 and the two packet
\* intervals after it
TsValues == { 0, TickSamples, 2 * TickSamples }

\* Worker.asteriskAddr: NewWorker leaves it nil and nothing assigns it
NewWorkerAsteriskAddr == "nil"

\* timestamp - baseTimestamp in uint32 arithmetic, as packet intervals
\* (2^16 = 409 * 160 + 96)
TimestampDiff(timestamp, baseTimestamp) ==
    LET d == ToUint32(timestamp - baseTimestamp)
    IN  d[1] * (Uint16 \div TickSamples)
          + (d[1] * (Uint16 % TickSamples) + d[2]) \div TickSamples

\* `if baseTimestamp == 0 { baseTimestamp = timestamp; baseTime = time.Now() }`
\* of handleOutgoingPacket, checkLatePacket and CalculateDelay: the base
\* afterwards
SetBaseIfZero(b, timestamp, clock) ==
    IF b.baseTimestamp = 0
    THEN [ baseTimestamp |-> timestamp, baseTime |-> clock ]
    ELSE b

\* PacketPacer.CalculateDelay(timestamp): the delay it returns
CalculateDelay(p, timestamp, clock) ==
    IF p.baseTimestamp = 0 THEN 0
    ELSE LET expectedTime == p.baseTime + TimestampDiff(timestamp, p.baseTimestamp)
         IN  IF expectedTime > clock THEN expectedTime - clock ELSE 0

\* Worker.checkLatePacket(packet, receiveTime): the value it returns; the
\* 3 ms of tolerance are less than one packet interval
checkLatePacket(b, timestamp, receiveTime) ==
    IF b.baseTimestamp = 0 THEN FALSE
    ELSE receiveTime > b.baseTime + TimestampDiff(timestamp, b.baseTimestamp)

\* conn.WriteToUDP by the processor: the datagram goes out unless the
\* reader has returned and closed the socket
WriteToUDP(to, timestamp, slept, before) ==
    writes' = Append(writes,
        [ to |-> to, ts |-> timestamp, sent |-> ~connClosed, slept |-> slept,
          stopBefore |-> before, stopAtWrite |-> (stopChan = "closed"),
          late |-> FALSE ])

\* packetProcessor takes a packet that came from the engine:
\* handleOutgoingPacket sets the base of the late check if it is zero, asks
\* the pacer for the delay and, with a delay of 0, writes the packet to the
\* echo server at once; with a positive delay it goes to sleep
handleOutgoingPacketPacing(timestamp) ==
    /\ processor.pc = "select"
    /\ Len(writes) < MaxPaced
    /\ workerBase' = SetBaseIfZero(workerBase, timestamp, paceNow)
    /\ pacer' = SetBaseIfZero(pacer, timestamp, paceNow)
    /\ \E delay \in { CalculateDelay(pacer, timestamp, paceNow) } :
          IF delay > 0
          THEN /\ processor' = [ pc |-> "sleeping", ts |-> timestamp,
                                 wake |-> paceNow + delay,
                                 stopBefore |-> (stopChan = "closed") ]
               /\ UNCHANGED writes
          ELSE /\ WriteToUDP("echo", timestamp, FALSE, stopChan = "closed")
               /\ UNCHANGED processor
    /\ UNCHANGED << vars, paceRest, stopChan, connClosed, paceNow >>

\* time.Sleep(delay) of handleOutgoingPacket returns: the packet is written
\* to the echo server and the processor is back at its select
handleOutgoingPacketWakes ==
    /\ processor.pc = "sleeping"
    /\ paceNow >= processor.wake
    /\ WriteToUDP("echo", processor.ts, TRUE, processor.stopBefore)
    /\ processor' = [ processor EXCEPT !.pc = "select" ]
    /\ UNCHANGED << vars, paceRest, pacer, workerBase, stopChan, connClosed,
                    paceNow >>

\* packetProcessor takes a packet that came from the echo server:
\* handleIncomingPacket runs checkLatePacket when the correlator found the
\* sequence number, which takes an earlier egress packet; asteriskAddr is
\* nil, so nothing is written back to the engine
handleIncomingPacketLate(timestamp, found) ==
    /\ processor.pc = "select"
    /\ Len(writes) < MaxPaced
    /\ found => \E i \in 1..Len(writes) : writes[i].to = "echo"
    /\ workerBase' = IF found THEN SetBaseIfZero(workerBase, timestamp, paceNow)
                     ELSE workerBase
    /\ writes' = Append(writes,
          [ to |-> "engine", ts |-> timestamp,
            sent |-> (NewWorkerAsteriskAddr # "nil" /\ ~connClosed),
            slept |-> FALSE, stopBefore |-> (stopChan = "closed"),
            stopAtWrite |-> (stopChan = "closed"),
            late |-> (found /\ checkLatePacket(workerBase, timestamp, paceNow)) ])
    /\ UNCHANGED << vars, paceRest, pacer, processor, stopChan, connClosed,
                    paceNow >>

\* Worker.Stop: close(w.stopChan)
CloseStopChan ==
    /\ stopChan = "open"
    /\ stopChan' = "closed"
    /\ UNCHANGED << vars, paceRest, pacer, workerBase, processor, connClosed,
                    paceNow, writes >>

\* a processor whose select has no `case <-w.stopChan`
packetProcessorDeaf ==
    /\ processor.pc = "select"
    /\ stopChan = "closed"
    /\ UNCHANGED allVars

\* packetProcessor at its select takes `case <-w.stopChan` and returns
packetProcessorStops ==
    /\ processor.pc = "select"
    /\ stopChan = "closed"
    /\ processor' = [ processor EXCEPT !.pc = "exited" ]
    /\ UNCHANGED << vars, paceRest, pacer, workerBase, stopChan, connClosed,
                    paceNow, writes >>

\* packetReader finds stopChan closed and returns; its deferred
\* w.conn.Close() closes the socket
packetReaderStops ==
    /\ stopChan = "closed"
    /\ ~connClosed
    /\ connClosed' = TRUE
    /\ UNCHANGED << vars, paceRest, pacer, workerBase, processor, stopChan,
                    paceNow, writes >>

\* a packet interval passes
PaceTick ==
    /\ paceNow < MaxPaceTime
    /\ paceNow' = paceNow + 1
    /\ UNCHANGED << vars, paceRest, pacer, workerBase, processor, stopChan,
                    connClosed, writes >>

InitPace == ServiceIdle /\ PaceIdle /\ paceRestIdle

NextPace ==
    \/ \E timestamp \in TsValues : handleOutgoingPacketPacing(timestamp)
    \/ handleOutgoingPacketWakes
    \/ \E timestamp \in TsValues, found \in BOOLEAN :
          handleIncomingPacketLate(timestamp, found)
    \/ CloseStopChan
    \/ packetProcessorStops
    \/ packetReaderStops
    \/ PaceTick

SpecPace == InitPace /\ [][NextPace]_allVars

(* ----------------------------- the metrics store ------------------------ *)
\* how many calls are made on the followed Metrics
MaxMetricCalls == 4

\* the capacity of a channel's Latencies and the number of samples dropped
\* when it is exceeded
LatencyCap == 10000

LatencyEvict == 1000

\* the latencies, in ms, and the gap counts handed to the followed Metrics
LatencyValues == { 0, 1, 2 }

DroppedValues == { 1, 2 }

\* LoadOrStore(channelID, &ChannelMetrics{...}): the entry of the channel,
\* a new one if it has none
LoadOrStore(cm, channelID) ==
    IF channelID \in DOMAIN cm THEN cm[channelID] ELSE NewChannelMetrics

\* the map with the entry of channelID set
StoreMetrics(cm, channelID, m) ==
    [ c \in DOMAIN cm \cup { channelID } |-> IF c = channelID THEN m ELSE cm[c] ]

\* an append that never drops a sample
appendUnlimited(latencies, latencyMs) == Append(latencies, latencyMs)

\* RecordLatency: the append to Latencies and the limit of the buffer size,
\* `Latencies[1000:]` when the length is above 10000
appendLatency(latencies, latencyMs) ==
    LET appended == Append(latencies, latencyMs)
    IN  IF Len(appended) > LatencyCap
        THEN SubSeq(appended, LatencyEvict + 1, Len(appended))
        ELSE appended

\* Metrics.RecordLatency(channelID, latencyMs)
RecordLatency(channelID, latencyMs) ==
    /\ metricCalls < MaxMetricCalls
    /\ metricCalls' = metricCalls + 1
    /\ \E m \in { LoadOrStore(channelMetrics, channelID) } :
          channelMetrics' = StoreMetrics(channelMetrics, channelID,
              [ m EXCEPT !.Latencies = appendLatency(@, latencyMs) ])
    /\ totalLatencies' = totalLatencies + 1
    /\ UNCHANGED << vars, metricsRest, totalChannels, beginsHandled >>

\* Metrics.RecordDroppedPackets(channelID, count)
RecordDroppedPackets(channelID, count) ==
    /\ metricCalls < MaxMetricCalls
    /\ metricCalls' = metricCalls + 1
    /\ \E m \in { LoadOrStore(channelMetrics, channelID) } :
          channelMetrics' = StoreMetrics(channelMetrics, channelID,
              [ m EXCEPT !.DroppedPackets = @ + count ])
    /\ UNCHANGED << vars, metricsRest, totalLatencies, totalChannels, beginsHandled >>

\* Metrics.RecordOutgoingPacket(channelID)
RecordOutgoingPacket(channelID) ==
    /\ metricCalls < MaxMetricCalls
    /\ metricCalls' = metricCalls + 1
    /\ \E m \in { LoadOrStore(channelMetrics, channelID) } :
          channelMetrics' = StoreMetrics(channelMetrics, channelID,
              [ m EXCEPT !.OutgoingPackets = @ + 1 ])
    /\ UNCHANGED << vars, metricsRest, totalLatencies, totalChannels, beginsHandled >>

\* Metrics.RecordLatePacket(channelID)
RecordLatePacket(channelID) ==
    /\ metricCalls < MaxMetricCalls
    /\ metricCalls' = metricCalls + 1
    /\ \E m \in { LoadOrStore(channelMetrics, channelID) } :
          channelMetrics' = StoreMetrics(channelMetrics, channelID,
              [ m EXCEPT !.LatePackets = @ + 1 ])
    /\ UNCHANGED << vars, metricsRest, totalLatencies, totalChannels, beginsHandled >>

\* Metrics.MarkChannelStarted(channelID): the counter afterwards
MarkChannelStarted(total) == total + 1

\* a caller marks a channel as started
CallMarkChannelStarted ==
    /\ metricCalls < MaxMetricCalls
    /\ metricCalls' = metricCalls + 1
    /\ totalChannels' = MarkChannelStarted(totalChannels)
    /\ UNCHANGED << vars, metricsRest, channelMetrics, totalLatencies, beginsHandled >>

\* the sum of a counter over the channels of the map
RECURSIVE SumOver(_, _, _)
SumOver(cm, S, field) ==
    IF S = {} THEN 0
    ELSE LET c == CHOOSE x \in S : TRUE
         IN  cm[c][field] + SumOver(cm, S \ { c }, field)

\* the Latencies of the channels of the map, one after the other in the
\* order in which Range visits them
RECURSIVE allLatencies(_, _)
allLatencies(cm, S) ==
    IF S = {} THEN << >>
    ELSE LET c == CHOOSE x \in S : TRUE
         IN  cm[c].Latencies \o allLatencies(cm, S \ { c })

\* a sort that leaves the samples as they were collected
sortNothing(s) == s

\* sort.Float64s
sortFloat64s(s) == SortSeq(s, LAMBDA a, b : a < b)

\* the three indexes of GetGlobalStats, from 0: int(float64(n)*0.5) and
\* int(math.Min(float64(n)*q, float64(n-1))) for q = 0.95 and 0.99
P50Index(n) == n \div 2

P95Index(n) == IF (n * 95) \div 100 < n - 1 THEN (n * 95) \div 100 ELSE n - 1

P99Index(n) == IF (n * 99) \div 100 < n - 1 THEN (n * 99) \div 100 ELSE n - 1

\* a ratio of two int64 that GetGlobalStats reports, as the pair of its
\* numerator and denominator; a ratio that was not computed stays 0
ZeroRatio == << 0, 1 >>

\* Metrics.GetGlobalStats on the map cm and the two global counters
GetGlobalStats(cm, latencies, started) ==
    LET all == sortFloat64s(allLatencies(cm, DOMAIN cm))
        n == Len(all)
        totalDroppedPackets == SumOver(cm, DOMAIN cm, "DroppedPackets")
        totalLatePackets == SumOver(cm, DOMAIN cm, "LatePackets")
        totalPackets == SumOver(cm, DOMAIN cm, "OutgoingPackets")
    IN  [ TotalChannels |-> started,
          ActiveChannels |-> Cardinality(DOMAIN cm),
          TotalLatencies |-> latencies,
          P50Latency |-> IF n > 0 THEN all[P50Index(n) + 1] ELSE 0,
          P95Latency |-> IF n > 0 THEN all[P95Index(n) + 1] ELSE 0,
          P99Latency |-> IF n > 0 THEN all[P99Index(n) + 1] ELSE 0,
          MaxLatency |-> IF n > 0 THEN all[n] ELSE 0,
          LateRatio |-> IF n > 0 /\ totalPackets > 0
                        THEN << totalLatePackets, totalPackets >>
                        ELSE ZeroRatio,
          PacketLossRatio |-> IF n > 0 /\ totalPackets > 0
                              THEN << totalDroppedPackets, totalPackets >>
                              ELSE ZeroRatio ]

InitMetrics == ServiceIdle /\ MetricsIdle /\ metricsRestIdle

NextMetrics ==
    \/ \E c \in ChannelIDs, ms \in LatencyValues : RecordLatency(c, ms)
    \/ \E c \in ChannelIDs, n \in DroppedValues : RecordDroppedPackets(c, n)
    \/ \E c \in ChannelIDs : RecordOutgoingPacket(c)
    \/ \E c \in ChannelIDs : RecordLatePacket(c)
    \/ CallMarkChannelStarted

SpecMetrics == InitMetrics /\ [][NextMetrics]_allVars

(* --------------------- a latency buffer at its capacity ----------------- *)
\* the lengths of the buffer the followed channel starts with: at the
\* capacity and the two lengths below it
FullLengths == { LatencyCap - 2, LatencyCap - 1, LatencyCap }

\* a channel that has returned n packets so far; the sample of the i-th
\* return is i ms, so that a sample tells its place in the recording order
FilledChannel(n) ==
    [ Latencies |-> [ i \in 1..n |-> i ], OutgoingPackets |-> n,
      DroppedPackets |-> 0, LatePackets |-> 0 ]

InitLatencies ==
    /\ ServiceIdle
    /\ metricsRestIdle
    /\ \E n \in FullLengths :
          /\ channelMetrics = StoreMetrics(<< >>, ChannelList[1], FilledChannel(n))
          /\ totalLatencies = n
    /\ totalChannels = 1
    /\ metricCalls = 0
    /\ beginsHandled = 0

NextLatencies == \E ms \in LatencyValues : RecordLatency(ChannelList[1], ms)

SpecLatencies == InitLatencies /\ [][NextLatencies]_allVars

(* ------------------- begin events and the started counter --------------- *)
\* how many begin events the followed service handles
MaxBegins == 4

\* the parts of the followed Metrics that the begin handler leaves alone
startedRest == << metricsRest, channelMetrics, totalLatencies, metricCalls >>

\* handleStasisStart for one more begin event: no call on the Metrics up to
\* the first engine call of createChannel
handleStasisStartCounted(c) ==
    /\ beginsHandled < MaxBegins
    /\ handleStasisStartStep(c)
    /\ beginsHandled' = beginsHandled + 1
    /\ UNCHANGED << totalChannels, startedRest >>

CreateBridgeCounted ==
    /\ CreateBridgeStep
    /\ UNCHANGED << totalChannels, beginsHandled, startedRest >>

CreateExternalMediaCounted ==
    /\ CreateExternalMediaStep
    /\ UNCHANGED << totalChannels, beginsHandled, startedRest >>

AddChannelToBridgeCounted ==
    /\ AddChannelToBridgeStep
    /\ UNCHANGED << totalChannels, beginsHandled, startedRest >>

\* the last step of createChannel: when the wiring is done and the handler
\* is stored, s.metrics.MarkChannelStarted(channelID) follows the Store
AddExternalMediaToBridgeCounted ==
    /\ AddExternalMediaToBridgeStep
    /\ totalChannels' = IF evResult' = "ok"
                        THEN MarkChannelStarted(totalChannels)
                        ELSE totalChannels
    /\ UNCHANGED << beginsHandled, startedRest >>

InitStarted == ServiceInit /\ MetricsIdle /\ metricsRestIdle

NextStarted ==
    \/ \E c \in ChannelIDs : handleStasisStartCounted(c)
    \/ CreateBridgeCounted
    \/ CreateExternalMediaCounted
    \/ AddChannelToBridgeCounted
    \/ AddExternalMediaToBridgeCounted

SpecStarted == InitStarted /\ [][NextStarted]_allVars

(* ------------------- the channels the snapshot calls active ------------ *)
\* handleOutgoingPacket of the worker of a stored record: the packet is
\* metered under the worker's channel id, w.metrics.RecordOutgoingPacket
workerRecordsOutgoing(c) ==
    /\ Alive
    /\ channels[c] # NoHandler
    /\ workers[channels[c]].started = "running"
    /\ workers[channels[c]].wg
    /\ RecordOutgoingPacket(c)

InitActive == ServiceInit /\ MetricsIdle /\ metricsRestIdle

\* the service with its begin events counted and its workers metering
NextActive ==
    \/ NextStarted
    \/ \E c \in ChannelIDs : handleStasisEnd(c)
    \/ \E p \in Procs : CleanupFinish(p)
    \/ \E p \in Procs : CleanupReturns(p)
    \/ \E c \in ChannelIDs : cleanupZombieChannels(c)
    \/ ZombieCheck
    \/ \E r \in Rids : Start(r)
    \/ \E r \in Rids : TasksExit(r)
    \/ \E c \in ChannelIDs : workerRecordsOutgoing(c)

SpecActive == InitActive /\ [][NextActive]_allVars

(* ------------------- the worker's tasks after Stop, to the end --------- *)
\* time.Sleep(delay) of handleOutgoingPacket lasts its delay, however long:
\* the clock reaches the instant the sleep ends at
timeSleepElapses ==
    /\ processor.pc = "sleeping"
    /\ paceNow < processor.wake
    /\ paceNow' = processor.wake
    /\ UNCHANGED << vars, paceRest, pacer, workerBase, processor, stopChan,
                    connClosed, writes >>

NextPaceLive == NextPace \/ timeSleepElapses

\* the two goroutines are scheduled and time passes: a sleep ends, a woken
\* processor writes, and a task that can observe the stop signal does
SpecPaceLive ==
    /\ InitPace
    /\ [][NextPaceLive]_allVars
    /\ WF_allVars(timeSleepElapses)
    /\ WF_allVars(handleOutgoingPacketWakes)
    /\ WF_allVars(packetProcessorStops)
    /\ WF_allVars(packetReaderStops)

(* ------------------ the queue between reader and processor ------------- *)
\* NewWorker: make(chan *Packet, 1000)
PacketChanCap == 1000

\* how many datagrams the followed packetReader reads
MaxArrivals == 2

\* how many packets the followed packetProcessor handles
MaxHandled == 2

\* how far the clock of the followed worker goes, in seconds
MaxQueueTime == 2

\* the RTP sequence numbers of the datagrams read in the followed run
QueueSeqs == { 1, 2 }

\* the lengths the queue of the followed worker starts with: empty, and at
\* its capacity
QueueLengths == { 0, PacketChanCap }

\* the i-th datagram of the backlog a followed run starts with: read from
\* the engine when the clock started
Backlog(i) == [ IsFromAsterisk |-> TRUE, seq |-> i % Uint16, ReceiveTime |-> 0 ]

\* the Packet the queued pointer id points to
PacketAt(id) == IF id \in DOMAIN datagrams THEN datagrams[id] ELSE Backlog(id)

\* a send that waits for room instead of dropping
sendAlways(q, id) == Append(q, id)

\* `select { case w.packetChan <- p: ... default: }` of packetReader: the
\* queue afterwards
trySend(q, id) == IF Len(q) < PacketChanCap THEN Append(q, id) ELSE q

\* packetReader: ReadFromUDP returns a datagram, which is copied, stamped
\* with time.Now() and offered to the queue; with the queue full it is
\* dropped and the loop goes on.  With stopChan closed meanwhile the select
\* may take `case <-w.stopChan` and return instead, and must when the queue
\* is full.
ReadFromUDP(fromAsterisk, seq) ==
    /\ readerTask.pc = "reading"
    /\ readerTask.arrivals < MaxArrivals
    /\ \E id \in { Len(packetChan) + Len(queueLog) + readerTask.dropped + 1 } :
       \E stopTaken \in { b \in BOOLEAN :
                            /\ b => workerStop = "closed"
                            /\ ~b => (workerStop = "open"
                                       \/ Len(packetChan) < PacketChanCap) } :
          IF stopTaken
          THEN /\ readerTask' = [ readerTask EXCEPT !.pc = "exited",
                                                    !.arrivals = @ + 1 ]
               /\ UNCHANGED << packetChan, datagrams >>
          ELSE /\ packetChan' = trySend(packetChan, id)
               /\ datagrams' =
                     IF Len(packetChan) < PacketChanCap
                     THEN [ i \in DOMAIN datagrams \cup { id } |->
                              IF i = id
                              THEN [ IsFromAsterisk |-> fromAsterisk,
                                     seq |-> seq, ReceiveTime |-> queueNow ]
                              ELSE datagrams[i] ]
                     ELSE datagrams
               /\ readerTask' =
                     [ readerTask EXCEPT
                         !.arrivals = @ + 1,
                         !.dropped = IF Len(packetChan) < PacketChanCap
                                     THEN @ ELSE @ + 1 ]
    /\ UNCHANGED << vars, queueRest, processorTask, workerStop, queueNow,
                    queueSent, queueLog >>

\* packetReader: ReadFromUDP returns an error that is not a timeout; the
\* error is logged and the loop is left, the deferred calls close the
\* socket and count the task out of w.wg
ReadFromUDPFails ==
    /\ readerTask.pc = "reading"
    /\ readerTask' = [ readerTask EXCEPT !.pc = "failed" ]
    /\ UNCHANGED << vars, queueRest, packetChan, datagrams, processorTask,
                    workerStop, queueNow, queueSent, queueLog >>

\* packetReader finds stopChan closed at the top of its loop and returns
packetReaderReturns ==
    /\ readerTask.pc = "reading"
    /\ workerStop = "closed"
    /\ readerTask' = [ readerTask EXCEPT !.pc = "exited" ]
    /\ UNCHANGED << vars, queueRest, packetChan, datagrams, processorTask,
                    workerStop, queueNow, queueSent, queueLog >>

\* packetProcessor takes the packet at the head of the queue: for one from
\* the engine handleOutgoingPacket records the send time, for one from the
\* echo server handleIncomingPacket asks the correlator for the latency
packetProcessorTakes ==
    /\ processorTask = "select"
    /\ packetChan # << >>
    /\ Len(queueLog) < MaxHandled
    /\ packetChan' = Tail(packetChan)
    /\ datagrams' = [ i \in DOMAIN datagrams \ { Head(packetChan) } |-> datagrams[i] ]
    /\ \E p \in { PacketAt(Head(packetChan)) } :
          IF p.IsFromAsterisk
          THEN /\ queueSent' = RecordSent(queueSent, p.seq, queueNow, queueNow)
               /\ queueLog' = Append(queueLog,
                     [ id |-> Head(packetChan), op |-> "out", found |-> FALSE,
                       rtt |-> NoSample, ReceiveTime |-> p.ReceiveTime,
                       sendTime |-> queueNow ])
          ELSE IF GetLatencyFound(queueSent, p.seq)
          THEN /\ queueSent' = GetLatencyAfter(queueSent, p.seq)
               /\ queueLog' = Append(queueLog,
                     [ id |-> Head(packetChan), op |-> "in", found |-> TRUE,
                       rtt |-> GetLatency(queueSent, p.seq, queueNow),
                       ReceiveTime |-> p.ReceiveTime,
                       sendTime |-> queueSent[p.seq] ])
          ELSE /\ queueSent' = queueSent
               /\ queueLog' = Append(queueLog,
                     [ id |-> Head(packetChan), op |-> "in", found |-> FALSE,
                       rtt |-> NoSample, ReceiveTime |-> p.ReceiveTime,
                       sendTime |-> NoSample ])
    /\ UNCHANGED << vars, queueRest, readerTask, processorTask, workerStop,
                    queueNow >>

\* packetProcessor at its select takes `case <-w.stopChan` and returns
packetProcessorReturns ==
    /\ processorTask = "select"
    /\ workerStop = "closed"
    /\ processorTask' = "exited"
    /\ UNCHANGED << vars, queueRest, packetChan, datagrams, readerTask,
                    workerStop, queueNow, queueSent, queueLog >>

\* Worker.Stop, called by handler.cleanup: close(w.stopChan)
StopClosesStopChan ==
    /\ workerStop = "open"
    /\ workerStop' = "closed"
    /\ UNCHANGED << vars, queueRest, packetChan, datagrams, readerTask,
                    processorTask, queueNow, queueSent, queueLog >>

\* a second passes
QueueTick ==
    /\ queueNow < MaxQueueTime
    /\ queueNow' = queueNow + 1
    /\ UNCHANGED << vars, queueRest, packetChan, datagrams, readerTask,
                    processorTask, workerStop, queueSent, queueLog >>

\* a started worker whose queue holds a backlog of n datagrams
InitQueue ==
    /\ ServiceIdle
    /\ queueRestIdle
    /\ \E n \in QueueLengths : packetChan = [ i \in 1..n |-> i ]
    /\ datagrams = << >>
    /\ readerTask = [ pc |-> "reading", arrivals |-> 0, dropped |-> 0 ]
    /\ processorTask = "select"
    /\ workerStop = "open"
    /\ queueNow = 0
    /\ queueSent = NewLatencyTracker
    /\ queueLog = << >>

NextQueue ==
    \/ \E fromAsterisk \in BOOLEAN, seq \in QueueSeqs : ReadFromUDP(fromAsterisk, seq)
    \/ ReadFromUDPFails
    \/ packetReaderReturns
    \/ packetProcessorTakes
    \/ packetProcessorReturns
    \/ StopClosesStopChan
    \/ QueueTick

SpecQueue == InitQueue /\ [][NextQueue]_allVars

\* the two goroutines are scheduled: a processor that can take a packet or
\* the stop signal does, and a reader that can observe the stop signal does
SpecQueueLive ==
    /\ InitQueue
    /\ [][NextQueue]_allVars
    /\ WF_allVars(packetProcessorTakes)
    /\ WF_allVars(packetProcessorReturns)
    /\ WF_allVars(packetReaderReturns)

(* ------------------------------ properties ---------------------------- *)
\* the number of owners of a port: the records in the map that carry it,
\* the begin handler that has allocated it and not yet stored or released
\* it, and the cleanup closures that run for a handler that carries it
Holders(p) ==
    Cardinality({ c \in ChannelIDs :
                    channels[c] # NoHandler /\ handlers[channels[c]].rtpPort = p })
    + (IF evPort = p THEN 1 ELSE 0)
    + Cardinality({ q \in Procs :
                      pc[q] = "wait" /\ handlers[clH[q]].rtpPort = p })

\* C1: while the service runs, every port marked allocated in the pool has
\* exactly one owner (a record in the active map, or the handler that is
\* setting it up or tearing it down), and a port that is free has none.
PortsHeldByExactlyOneRecord ==
    Alive => \A p \in PortRange :
                /\ ports[p] => Holders(p) = 1
                /\ ~ports[p] => Holders(p) = 0

EndHandlerOrder == << "remove", "stop", "release", "hangup", "destroy" >>

IsPrefix(s, t) == Len(s) <= Len(t) /\ SubSeq(t, 1, Len(s)) = s

\* C3: the End handler first takes the record out of the map and then, in
\* this order, stops the worker (joining its tasks), releases the port,
\* hangs up the mirror and destroys the bridge: while it waits for the
\* worker the record is out of the map and the port is still allocated,
\* and when it is done the steps were taken in that order.
EndHandlerInOrder ==
    \A p \in Procs :
       /\ IsPrefix(teardown[p], EndHandlerOrder)
       /\ pc[p] = "wait" =>
             /\ teardown[p] = << "remove" >>
             /\ \A c \in ChannelIDs : channels[c] # clH[p]
             /\ ports[handlers[clH[p]].rtpPort]
       /\ pc[p] = "done" => teardown[p] = EndHandlerOrder

\* C3 witness: an End handler of the event loop has run to its end for a
\* worker that was running
EndHandlerCompleted ==
    /\ pc["events"] = "done"
    /\ teardown["events"] = EndHandlerOrder
    /\ workers[clH["events"]].started = "running"
    /\ ~workers[clH["events"]].wg

\* C4: when createChannel returns ErrNoPortsAvailable, the call has been
\* hung up.
ExhaustedCallIsHungUp ==
    evResult = "exhausted" => "hangup" \in evUndo

\* the positions of createChannel at an engine call made after GetPort
WiringPcs == { "createBridge", "createMirror", "attach1", "attach2" }

\* C5: when an engine call made after the port was allocated fails, the
\* begin handler returns the error with the port released and with the
\* active map and the records as they were.
WiringFailureReleasesPort ==
    [][ (pc["events"] \in WiringPcs /\ pc'["events"] = "idle" /\ evResult' # "ok")
           => /\ evResult' = "wiringFailed"
              /\ ~ports'[evPort]
              /\ channels' = channels
              /\ handlers' = handlers ]_vars

\* C5 witness: createChannel has returned a wiring error while another call
\* is active
WiringFailureReturned ==
    /\ pc["events"] = "idle"
    /\ evResult = "wiringFailed"
    /\ \E c \in ChannelIDs : channels[c] # NoHandler

\* C6: when a wiring step fails after the bridge was created, the begin
\* handler has asked the engine to destroy the bridge, and to hang up the
\* mirror when that was created too.
FailedWiringTearsDown ==
    [][ (pc["events"] \in { "createMirror", "attach1", "attach2" }
            /\ evResult' = "wiringFailed")
           => /\ "destroy" \in evUndo'
              /\ evMirror # EmptyID => "hangup" \in evUndo' ]_vars

\* C7: a record in the active map never has a worker whose Start failed.
StoredRecordHasStartedWorker ==
    \A c \in ChannelIDs :
       channels[c] # NoHandler => workers[channels[c]].started # "bindFailed"

\* C8: when the scrubber's lookup of a channel that has a record came back
\* with the engine's 404, the scrubber's next step takes the record out of
\* the map and signals its worker to stop; and the End handler it runs
\* finishes with the worker's tasks gone and the port free.
NotFoundRunsEndHandler ==
    [][ /\ (pc["zombie"] = "checked" /\ zOutcome = "http404"
               /\ channels[zCh] # NoHandler
               /\ pc'["zombie"] \notin { "checked", "exited" })
           => /\ pc'["zombie"] = "wait"
              /\ channels'[zCh] = NoHandler
              /\ handlers'[clH'["zombie"]].channelID = zCh
              /\ workers'[clH'["zombie"]].stopChan = "closed"
        /\ (pc["zombie"] = "wait" /\ pc'["zombie"] = "done")
           => /\ ~workers[clH["zombie"]].wg
              /\ ~ports'[handlers[clH["zombie"]].rtpPort] ]_vars

\* C8 witness: the End handler the scrubber ran after a 404 is done: the
\* record is out of the map and the port is free
ZombieTornDown ==
    /\ pc["zombie"] = "done"
    /\ zOutcome = "http404"
    /\ channels[handlers[clH["zombie"]].channelID] = NoHandler
    /\ ~ports[handlers[clH["zombie"]].rtpPort]

\* C9: the scrubber runs no End handler after a lookup that failed with a
\* transport error.
TransportErrorSkips ==
    zOutcome = "transport" => pc["zombie"] \notin { "wait", "done" }

\* C10: once the process has shut down, the active map is empty, no worker
\* task is left and no port is allocated.
ShutdownRunsEndHandlers ==
    shutdown => /\ \A c \in ChannelIDs : channels[c] = NoHandler
                /\ \A r \in Rids : ~workers[r].wg
                /\ \A p \in PortRange : ~ports[p]


EventsAfterFailureHandled ==
    \A k \in 1..MaxEvents :
        (stream.failed /\ stream.emitted >= k) ~> (stream.handled >= k)

\* the ids for which a poll dispatched an event of the given type
Dispatched(events, type) ==
    { events[i][2] : i \in { k \in 1..Len(events) : events[k][1] = type } }

\* C13: a successful poll dispatches a begin exactly for the listed ids that
\* were not remembered and an end exactly for the remembered ids that are
\* not listed, each once, and afterwards the remembered set is the polled
\* list; a failed poll dispatches nothing and leaves the remembered set.
PollDispatchesDifference ==
    [][ IF polled'.ok
        THEN LET current == currentChannels(polled'.list)
                 events == polled'.events
             IN  /\ Dispatched(events, "StasisStart") = current \ knownChannels
                 /\ Dispatched(events, "StasisEnd") = knownChannels \ current
                 /\ Len(events) = Cardinality(current \ knownChannels)
                                  + Cardinality(knownChannels \ current)
                 /\ knownChannels' = current
        ELSE /\ polled'.events = << >>
             /\ knownChannels' = knownChannels ]_allVars

\* a poll that found one remembered channel still listed, one gone and one
\* new: a begin and an end were dispatched, none for the channel that stayed
PollSawAllThree ==
    /\ polled.ok
    /\ \E stay, new \in knownChannels :
          /\ stay # new
          /\ Dispatched(polled.events, "StasisStart") = { new }
          /\ Cardinality(Dispatched(polled.events, "StasisEnd")) = 1

\* the pool as call k of the followed run left it
PoolAfter(k) == IF k = Len(pmCalls) THEN portManager ELSE pmCalls[k + 1].before

\* C14: GetPort returns the lowest-numbered free port of the range and marks
\* it, leaving every other port as it was; it returns no port, changing
\* nothing, exactly when every port of the range is allocated; the port it
\* returns is in the range and was free.
GetPortLowestFree ==
    \A k \in 1..Len(pmCalls) :
        pmCalls[k].op = "GetPort" =>
            LET before == pmCalls[k].before
                port == pmCalls[k].port
            IN  /\ port = 0 <=> \A q \in PortRange : before[q]
                /\ port = 0 => PoolAfter(k) = before
                /\ port # 0 =>
                      /\ port \in PortRange
                      /\ ~before[port]
                      /\ \A q \in PortRange : q < port => before[q]
                      /\ PoolAfter(k) = [ before EXCEPT ![port] = TRUE ]

\* a run in which GetPort found the pool exhausted and, after the lowest
\* port was released while a higher one stayed allocated, returned the
\* lowest port again
GetPortReusedLowest ==
    /\ \E k \in 1..Len(pmCalls) :
          pmCalls[k].op = "GetPort" /\ pmCalls[k].port = 0
    /\ \E k \in 1..Len(pmCalls) :
          /\ pmCalls[k].op = "GetPort"
          /\ pmCalls[k].port = MinPort
          /\ pmCalls[k].before[MaxPort]

\* C15: ReleasePort of a port outside the range or of a free port leaves
\* the mark of every port as it was; ReleasePort of an allocated port frees
\* that port only; and a second ReleasePort of the same port leaves the pool
\* as the first one left it.
ReleaseIdempotent ==
    \A k \in 1..Len(pmCalls) :
        pmCalls[k].op = "ReleasePort" =>
            LET before == pmCalls[k].before
                port == pmCalls[k].port
            IN  /\ port \notin PortRange => PoolAfter(k) = before
                /\ port \in PortRange /\ ~before[port] => PoolAfter(k) = before
                /\ port \in PortRange /\ before[port] =>
                      PoolAfter(k) = [ before EXCEPT ![port] = FALSE ]
                /\ k < Len(pmCalls) /\ pmCalls[k + 1].op = "ReleasePort"
                   /\ pmCalls[k + 1].port = port =>
                      PoolAfter(k + 1) = PoolAfter(k)

\* a run that released an allocated port twice in a row, and also a port
\* below the range
ReleasedTwice ==
    /\ \E k \in 1..(Len(pmCalls) - 1) :
          /\ pmCalls[k].op = "ReleasePort"
          /\ pmCalls[k].port \in PortRange
          /\ pmCalls[k].before[pmCalls[k].port]
          /\ pmCalls[k + 1].op = "ReleasePort"
          /\ pmCalls[k + 1].port = pmCalls[k].port
    /\ \E k \in 1..Len(pmCalls) :
          pmCalls[k].op = "ReleasePort" /\ pmCalls[k].port = MinPort - 1

\* C16: the end handler of an active call frees the port of that call, and a
\* begin handler reports the pool exhausted only when no port is free: once
\* a call has ended after an exhaustion, a later begin is given a port.
ExhaustionRecovers ==
    [][ /\ \A p \in Procs :
              pc[p] = "wait" /\ pc'[p] = "done" =>
                  ~ports'[handlers[clH[p]].rtpPort]
        /\ evResult # "exhausted" /\ evResult' = "exhausted" =>
              FreePorts(ports) = {}
        /\ pc["events"] = "idle" /\ pc'["events"] = "createBridge" =>
              /\ evPort' \in FreePorts(ports)
              /\ ports'[evPort'] ]_vars

\* the last begin failed on an exhausted pool, a call has ended since and
\* its port is free, and a begin that allocates it can be handled now
BeginAfterExhaustion ==
    /\ evResult = "exhausted"
    /\ pc["events"] = "idle"
    /\ FreePorts(ports) # {}
    /\ channels # [ c \in ChannelIDs |-> NoHandler ]
    /\ ENABLED (\E c \in ChannelIDs :
                   handleStasisStart(c) /\ pc'["events"] = "createBridge")

\* C17: a Stop call on a worker whose earlier Stop has returned returns
\* normally as well: it does not panic.
SecondStopReturns ==
    \A r \in Rids :
        \A k \in 2..Len(rtpWorkers[r].stops) :
            rtpWorkers[r].stops[k] # "panicked"

\* the packets before packet j of the followed run that were sent out with
\* the sequence number of packet j
SendsBefore(j) ==
    { i \in 1..(j - 1) : rtpLog[i].op = "out" /\ rtpLog[i].seq = rtpLog[j].seq }

\* the returns that recorded an RTT for the send of packet i
SamplesOf(i) ==
    { j \in (i + 1)..Len(rtpLog) :
        /\ rtpLog[j].op = "in"
        /\ rtpLog[j].seq = rtpLog[i].seq
        /\ rtpLog[j].rtt # NoSample
        /\ \A k \in SendsBefore(j) : k <= i }

\* C18: for every send at most one later return with its sequence number
\* records an RTT, and that RTT is not negative; a return records an RTT
\* only for an earlier send, and a return that finds no entry, because the
\* number was never sent or the entry was consumed, records none.
CorrelatorConsumesOnce ==
    /\ \A i \in 1..Len(rtpLog) :
          rtpLog[i].op = "out" => Cardinality(SamplesOf(i)) <= 1
    /\ \A j \in 1..Len(rtpLog) :
          rtpLog[j].op = "in" =>
              /\ rtpLog[j].rtt # NoSample =>
                    /\ rtpLog[j].rtt >= 0
                    /\ SendsBefore(j) # {}
              /\ ~rtpLog[j].had => rtpLog[j].rtt = NoSample
              /\ SendsBefore(j) = {} => ~rtpLog[j].had
              /\ \A i \in SendsBefore(j) :
                    /\ \A k \in SendsBefore(j) : k <= i
                    /\ \E k \in SamplesOf(i) : k < j
                    => ~rtpLog[j].had

\* a send whose first return recorded an RTT and whose second return
\* recorded none, and a return of a number that was never sent
ReturnedTwice ==
    /\ \E i, j, k \in 1..Len(rtpLog) :
          /\ rtpLog[i].op = "out"
          /\ j \in SamplesOf(i)
          /\ j < k
          /\ rtpLog[k].op = "in"
          /\ rtpLog[k].seq = rtpLog[i].seq
          /\ rtpLog[k].rtt = NoSample
    /\ \E j \in 1..Len(rtpLog) :
          rtpLog[j].op = "in" /\ SendsBefore(j) = {}

\* C19: a return that arrives more than 3 s after its send records no RTT,
\* whether or not another packet was sent in between: no recorded RTT is
\* above 3 s.
CorrelatorAgeCeiling ==
    \A j \in 1..Len(rtpLog) :
        rtpLog[j].op = "in" /\ rtpLog[j].rtt # NoSample =>
            rtpLog[j].rtt <= MaxAge

\* C20: when a tracked return steps forward across the wrap of the 16-bit
\* sequence number, the gap TrackIncoming reports is (new - last - 1) mod
\* 2^16: 1 for last 0xFFFE and new 0x0000.
GapAcrossWrap ==
    \A j \in 1..Len(rtpLog) :
        /\ rtpLog[j].op = "in"
        /\ rtpLog[j].rtt # NoSample
        /\ rtpLog[j].last # 0
        /\ rtpLog[j].seq < rtpLog[j].last
        /\ (rtpLog[j].seq - rtpLog[j].last) % Uint16 < 32768
        => rtpLog[j].dropped
              = ToUint32((rtpLog[j].seq - rtpLog[j].last - 1) % Uint16)

\* the followed calls up to call j form an in-order stream that starts above
\* 0 and does not wrap: every sequence number is above the one before it
InOrderUpTo(j) ==
    /\ rtpLog[1].seq > 0
    /\ \A i \in 1..(j - 1) : rtpLog[i].seq < rtpLog[i + 1].seq

\* C21: on an in-order stream every call of TrackIncoming returns the gap
\* between the packet and the one before it, so a packet that directly
\* follows the one before it returns 0 also after a gap was reported, and
\* droppedCount is the number of sequence numbers missing from the stream.
MeterReportsNewGapOnly ==
    \A j \in 1..Len(rtpLog) :
        InOrderUpTo(j) =>
            /\ j > 1 => rtpLog[j].dropped
                           = ToUint32(rtpLog[j].seq - rtpLog[j - 1].seq - 1)
            /\ j = Len(rtpLog) =>
                  sequenceTracker.droppedCount
                      = ToUint32(rtpLog[j].seq - rtpLog[1].seq + 1 - j)

\* C22: a call of TrackIncoming with a sequence number at or below the one
\* last seen, and no more than 2^15 below it, returns 0: a duplicate or a
\* reordered packet adds nothing to droppedCount.
MeterIgnoresReorder ==
    \A j \in 1..Len(rtpLog) :
        /\ rtpLog[j].seq <= rtpLog[j].last
        /\ rtpLog[j].last - rtpLog[j].seq <= 32768
        => rtpLog[j].dropped = ToUint32(0)

\* C23: the worker has counted at least as many egress packets as returns:
\* outgoingCount >= incomingCount in every state.
OutboundAtLeastInbound ==
    sequenceTracker.outgoingCount >= sequenceTracker.incomingCount

\* every egress packet has been returned and counted, and one more return,
\* which found no entry, was not counted
EveryEgressReturned ==
    /\ sequenceTracker.outgoingCount > 0
    /\ sequenceTracker.incomingCount = sequenceTracker.outgoingCount
    /\ \E j \in 1..Len(rtpLog) : rtpLog[j].op = "in" /\ ~rtpLog[j].had

\* C24: the gaps the worker has counted do not exceed the egress packets it
\* has counted: droppedCount <= outgoingCount in every state, whatever the
\* order of the returns.
DropsAtMostOutbound ==
    /\ sequenceTracker.droppedCount[1] = 0
    /\ sequenceTracker.droppedCount[2] <= sequenceTracker.outgoingCount

\* the followed processor has handled its first egress packet: a first
\* packet is never delayed, so it has been written
FirstEgressHandled == \E i \in 1..Len(writes) : writes[i].to = "echo"

\* C25: once the first egress packet of the worker has been handled, no
\* step changes the base of the pacer or the base of the late check,
\* whatever the media timestamp of that first packet was.
BaseIsWriteOnce ==
    [][ FirstEgressHandled => pacer' = pacer /\ workerBase' = workerBase ]_allVars

\* C30: an egress packet whose pacing sleep began before stopChan was
\* closed and ended after it is not sent to the echo server.
StopAbortsPacingSleep ==
    \A i \in 1..Len(writes) :
        /\ writes[i].to = "echo"
        /\ writes[i].slept
        /\ ~writes[i].stopBefore
        /\ writes[i].stopAtWrite
        => ~writes[i].sent

\* the snapshot of the followed Metrics
Snapshot == GetGlobalStats(channelMetrics, totalLatencies, totalChannels)

\* the number of samples the followed Metrics holds, over all channels
SamplesHeld == Len(allLatencies(channelMetrics, DOMAIN channelMetrics))

\* C26: in every snapshot P50Latency <= P95Latency <= P99Latency <=
\* MaxLatency, and with no sample in any channel all four are 0; the three
\* indexes are in this order, and inside the sorted samples, for every
\* number of samples two full buffers can hold (a fact about numbers,
\* evaluated where the store is empty).
PercentilesMonotone ==
    /\ Snapshot.P50Latency <= Snapshot.P95Latency
    /\ Snapshot.P95Latency <= Snapshot.P99Latency
    /\ Snapshot.P99Latency <= Snapshot.MaxLatency
    /\ SamplesHeld = 0 =>
          /\ Snapshot.P50Latency = 0
          /\ Snapshot.P95Latency = 0
          /\ Snapshot.P99Latency = 0
          /\ Snapshot.MaxLatency = 0
    /\ channelMetrics = << >> =>
          \A n \in 1..(2 * LatencyCap) :
              /\ 0 <= P50Index(n)
              /\ P50Index(n) <= P95Index(n)
              /\ P95Index(n) <= P99Index(n)
              /\ P99Index(n) <= n - 1

\* two channels hold samples, recorded out of order, and the median of the
\* snapshot is below its maximum
SnapshotOfTwoChannels ==
    /\ \A c \in ChannelIDs :
          c \in DOMAIN channelMetrics /\ channelMetrics[c].Latencies # << >>
    /\ \E c \in ChannelIDs :
          /\ Len(channelMetrics[c].Latencies) = 2
          /\ channelMetrics[c].Latencies[1] > channelMetrics[c].Latencies[2]
    /\ Snapshot.P50Latency < Snapshot.MaxLatency

\* C27: the snapshot reports LateRatio = sum of LatePackets / sum of
\* OutgoingPackets and PacketLossRatio = sum of DroppedPackets / sum of
\* OutgoingPackets over the channels of the store, and 0 for both when the
\* sum of OutgoingPackets is 0.
RatiosAreSums ==
    LET totalPackets ==
            SumOver(channelMetrics, DOMAIN channelMetrics, "OutgoingPackets")
        totalLatePackets ==
            SumOver(channelMetrics, DOMAIN channelMetrics, "LatePackets")
        totalDroppedPackets ==
            SumOver(channelMetrics, DOMAIN channelMetrics, "DroppedPackets")
    IN  /\ totalPackets > 0 =>
              /\ Snapshot.LateRatio[1] * totalPackets
                    = totalLatePackets * Snapshot.LateRatio[2]
              /\ Snapshot.PacketLossRatio[1] * totalPackets
                    = totalDroppedPackets * Snapshot.PacketLossRatio[2]
        /\ totalPackets = 0 =>
              /\ Snapshot.LateRatio[1] = 0
              /\ Snapshot.PacketLossRatio[1] = 0

\* C29: a RecordLatency call leaves at most 10000 samples in the buffer of
\* its channel; when the append makes the length exceed 10000 the buffer
\* afterwards is the appended one without its first 1000 samples, the rest
\* in their order, and otherwise it is the appended one.
LatencyBufferBounded ==
    [][ \A c \in DOMAIN channelMetrics :
          LET old == channelMetrics[c].Latencies
              new == channelMetrics'[c].Latencies
          IN  totalLatencies' = totalLatencies + 1 /\ new # old =>
                /\ Len(new) <= LatencyCap
                /\ IF Len(old) + 1 > LatencyCap
                   THEN /\ Len(new) = Len(old) + 1 - LatencyEvict
                        /\ \A i \in 1..(Len(new) - 1) :
                              new[i] = old[i + LatencyEvict]
                   ELSE /\ Len(new) = Len(old) + 1
                        /\ \A i \in 1..Len(old) : new[i] = old[i] ]_allVars

\* a buffer that was full has taken one more sample: it now starts at the
\* 1001st sample recorded and ends with the new one
OldestThousandDropped ==
    \E c \in DOMAIN channelMetrics :
        LET l == channelMetrics[c].Latencies
        IN  /\ Len(l) = LatencyCap - LatencyEvict + 1
            /\ l[1] = LatencyEvict + 1
            /\ l[Len(l) - 1] = LatencyCap
            /\ l[Len(l)] \in LatencyValues

\* C28: totalChannels counts the begin events handled: when no begin
\* handler is running it equals their number, and while one is running it
\* is that number or one less.
StartedCountsEveryBegin ==
    /\ pc["events"] = "idle" => totalChannels = beginsHandled
    /\ pc["events"] # "idle" =>
          totalChannels \in { beginsHandled - 1, beginsHandled }

\* C34: every return the processor handles goes through TrackIncoming,
\* whether or not the correlator has an entry for its sequence number:
\* incomingCount is the number of returns handled.
EveryReturnIsMetered ==
    sequenceTracker.incomingCount
        = Cardinality({ j \in 1..Len(rtpLog) : rtpLog[j].op = "in" })

\* C35: every return the processor handles while the socket is open is
\* written to the engine's address.
EveryReturnIsForwarded ==
    \A i \in 1..Len(writes) :
        writes[i].to = "engine" /\ ~writes[i].stopAtWrite => writes[i].sent

\* C38: whenever the service runs and neither the event loop nor the
\* scrubber is inside a handler, the pool has as many allocated ports as
\* the active map has records, and every worker whose tasks run and were
\* not told to stop belongs to a record in the map; a second StasisStart
\* for a stored channel id included.
SecondBeginKeepsAccounts ==
    Alive /\ (\A p \in Procs : pc[p] = "idle") =>
        /\ Cardinality({ p \in PortRange : ports[p] })
              = Cardinality({ c \in ChannelIDs : channels[c] # NoHandler })
        /\ \A r \in Rids :
              workers[r].wg /\ workers[r].stopChan = "open" =>
                  \E c \in ChannelIDs : channels[c] = r

\* C37: while the service runs, a worker whose tasks run, and whose socket
\* is therefore bound, has its port allocated in the pool: no port is free
\* while a socket is bound to it, also when the End handler ran before
\* Worker.Start did.
NoSocketOnFreePort ==
    Alive => \A r \in Rids : workers[r].wg => ports[workers[r].rtpPort]

\* C39: the begin handler is dispatched only for call channels: no poll
\* hands a begin to handleWebSocketMessage for the mirror channel the
\* service created for a call.
BeginsOnlyForCalls ==
    \A i \in 1..Len(polled.events) :
        polled.events[i][1] = "StasisStart" =>
            polled.events[i][2] \in ChannelIDs

\* C40: with no handler in progress, the channels the snapshot counts as
\* active are the channels that have a record in the active map: a channel
\* whose End handler has completed is not counted.
ActiveCountsOnlyRecords ==
    (\A p \in Procs : pc[p] = "idle") =>
        /\ \A c \in DOMAIN channelMetrics : channels[c] # NoHandler
        /\ Snapshot.ActiveChannels
              <= Cardinality({ c \in ChannelIDs : channels[c] # NoHandler })

\* C31: once Stop has closed stopChan, the reader returns (closing the
\* socket) and the processor returns, so that wg.Wait of Stop returns,
\* whether the processor was at its select, in a pacing sleep (also one
\* computed from a timestamp older than the base) or writing.
StopTerminatesWorker ==
    (stopChan = "closed") ~> (processor.pc = "exited" /\ connClosed)

\* both tasks have returned after a Stop that came while the processor
\* slept the delay of a packet older than the base of the pacer
StoppedInWrappedSleep ==
    /\ processor.pc = "exited"
    /\ connClosed
    /\ \E i \in 1..Len(writes) :
          /\ writes[i].slept
          /\ ~writes[i].stopBefore
          /\ writes[i].stopAtWrite
          /\ writes[i].ts < pacer.baseTimestamp

\* C33: the queue never holds more than its capacity; a reader that has a
\* datagram can always finish its step; a step of the reader leaves the
\* queued datagrams in place and in order, and with the queue full it leaves
\* the queue as it is, counts the datagram as dropped and, unless Stop was
\* called, goes on reading.
FullQueueDropsNewest ==
    /\ [](Len(packetChan) <= PacketChanCap)
    /\ [](readerTask.pc = "reading" /\ readerTask.arrivals < MaxArrivals
             => ENABLED ReadFromUDP(TRUE, 1))
    /\ [][ readerTask'.arrivals = readerTask.arrivals + 1 =>
             /\ Len(packetChan') >= Len(packetChan)
             /\ SubSeq(packetChan', 1, Len(packetChan)) = packetChan
             /\ Len(packetChan) = PacketChanCap =>
                   /\ packetChan' = packetChan
                   /\ workerStop = "open" =>
                         /\ readerTask'.pc = "reading"
                         /\ readerTask'.dropped = readerTask.dropped + 1 ]_allVars

\* the reader dropped a datagram at a full queue and is still reading
DroppedAtFullQueue ==
    /\ readerTask.dropped > 0
    /\ readerTask.pc = "reading"
    /\ Len(packetChan) = PacketChanCap
    /\ packetChan = [ i \in 1..PacketChanCap |-> i ]

\* C36: the RTT handed to the metrics for a matched return is the instant
\* the reader stamped on the datagram minus the send instant of the egress
\* packet, whatever time the datagram spent in the queue.
RttIsArrivalMinusSend ==
    \A i \in 1..Len(queueLog) :
        queueLog[i].found =>
            queueLog[i].rtt = queueLog[i].ReceiveTime - queueLog[i].sendTime

\* C32: after a fatal read error of the reader the processor returns too
\* and Stop is called on the worker, as the End handler of the channel does.
ReaderFailureEndsWorker ==
    (readerTask.pc = "failed") ~>
        (processorTask = "exited" /\ workerStop = "closed")
====
